---- MODULE Spec2Model ----
(***************************************************************************)
(* Chronological replay of arbitrage opportunities against per-exchange    *)
(* wallets: Backtester.run / _processing_loop /                            *)
(* _simulate_trades_for_instance, BalanceManager and StatisticsCollector   *)
(* (Spec); the opportunity detector MultiExchangeArbitrageAnalyzer         *)
(* (DetectorSpec); StatisticsCollector.record_trade / get_results in both  *)
(* of its implementations (CollectorSpec); and a simulation from its       *)
(* configuration on: BalanceManager.__init__, setup_initial_assets and the *)
(* replay of opportunities, for any exchange list and commission           *)
(* (ConfigSpec); the per-opportunity steps of the instances taken in any   *)
(* interleaving (InterleavedSpec); the funding of the instances of one     *)
(* symbol from the market data, in both backtesters (FundingSpec); the     *)
(* chart server's join of two rolling windows (ChartSpec); the live finder *)
(* MarketState / ArbitrageFinder under updates and searches (FinderSpec);  *)
(* the fake-money MultiPairTrader and its BalanceManager (TraderSpec).     *)
(*                                                                         *)
(* Numbers.  The program computes in float64.  Here every quantity is an   *)
(* integer number of grid units, Scale units making 1.0; + and - are exact *)
(* on the grid, * and / round to the nearest grid value, as a float        *)
(* operation rounds to the nearest representable value.  The sums of a     *)
(* column of floats (get_results) keep a bounded number of significant     *)
(* bits, as a float sum does: a sum of MantissaLimit or more is rounded.   *)
(***************************************************************************)
EXTENDS Integers, Sequences, FiniteSets, TLC

\* ------------------------------------------------------------------ bounds
Scale == 100        \* grid units per 1.0
MaxOpps == 3        \* opportunities the detector finds for the first symbol
MaxQuotes == 3      \* quotes of one symbol handed to the detector
MaxTrades == 3      \* trades recorded with the statistics collector
MantissaLimit == 256 \* sums below it are exact, larger ones keep 8 bits
MaxInterleaved == 2 \* opportunities of the first symbol when instances interleave
MaxClock == 5       \* seconds the live finder runs for
MaxUpdates == 3     \* market data messages the live finder receives

\* --------------------------------------------------------------- arithmetic
Min(a, b) == IF a <= b THEN a ELSE b

\* n / d rounded to the nearest integer (d > 0), halves upwards
RoundDiv(n, d) == (2 * n + d) \div (2 * d)

\* float multiplication and division, rounded to the grid
FMul(x, y) == RoundDiv(x * y, Scale)
FDiv(x, y) == RoundDiv(x * Scale, y)

\* the literal k (1, 100, ...) as a grid value
Lit(k) == k * Scale

\* ---------------------------------------------------------- configuration
\* BalanceManager.__init__: initial_balance_usdt (20.0 here, 1000.0 there)
InitialBalance == Lit(20)
\* setup_initial_assets: swap_ratio = 0.5
SwapRatio == FDiv(Lit(1), Lit(2))
\* _simulate_trades_for_instance: the execution epsilon, in grid units (1e-9
\* there, many float steps above zero; here one grid unit is dust)
Epsilon == 2
\* Backtester.__init__: self.profit_thresholds, ascending
ProfitThresholds == <<Lit(5), Lit(200)>>
\* Backtester.__init__: self.exchanges, self.symbols
Exchanges == <<"A", "B", "C">>
Symbols == <<"BTCUSDT", "ETHUSDT">>

ExchangeSet == {Exchanges[i] : i \in 1..Len(Exchanges)}
SymbolSet == {Symbols[i] : i \in 1..Len(Symbols)}
ThresholdIdx == 1..Len(ProfitThresholds)

\* ------------------------------------------------------------------ inputs
\* commission percentages the replay is run with (0 % and 25 %)
CommissionSet == {0, Lit(25)}
\* first valid ask per (symbol, exchange); 0: no record with bestAsk > 0
AskSet == {0, Lit(1)}
\* timestamps of the quotes
TimeSet == {1, 2}
\* <<buy exchange, sell exchange, buy price, sell price>> of the opportunities
ShapeSet ==
    {<<"A", "B", Lit(3), Lit(4)>>, <<"A", "B", Lit(1), Lit(3)>>,
     <<"A", "C", Lit(1), Lit(4)>>}
\* and of the one opportunity another symbol may have
OtherShapeSet == {<<"B", "A", Lit(1), Lit(3)>>}

\* the commission taken off once for each leg
ProfitPctBothLegs(sell_price, buy_price, commission) ==
    FMul(FDiv(sell_price - buy_price, buy_price), Lit(100)) - 2 * commission

\* arbitrage_analyzer._find_pair_opportunities: profit_pct
ProfitPct(sell_price, buy_price, commission) ==
    FMul(FDiv(sell_price - buy_price, buy_price), Lit(100)) - commission

\* ------------------------------------------------------------------- state
VARIABLES
    commission_pct,   \* Backtester.commission_pct
    asks,             \* input: symbol_initial_prices, [symbol -> [exchange -> ask]]
    opps,             \* input: the detector's output per symbol, in its own order
    tieBreak,         \* how DataFrame.sort orders rows of equal timestamp
    pc,               \* "init", "replay" or "done": where run() stands
    pos,              \* <<k, i>>: instance k of Instances, opportunity i of its list
    valid,            \* valid_opportunities of instance k, as a list of rows
    heap,             \* BalanceManager objects: [object id -> balances]
    balance_managers, \* Backtester.balance_managers: [symbol -> [threshold idx -> id]]
    trades,           \* StatisticsCollector: the recorded trades, in order
    evaluated,        \* per instance, the opportunities evaluated so far, in order
    last              \* the locals of the latest loop iteration

\* MultiExchangeArbitrageAnalyzer.find_maker_taker_opportunities
VARIABLES
    spread_data,       \* input: the quotes of one symbol, a list of rows
    det_commission,    \* input: commission_pct
    det_tie,           \* how DataFrame.sort orders rows of equal timestamp
    unique_order,      \* the order Series.unique lists the exchanges in
    det_pc,            \* "idle", "start", "pairs" or "returned"
    pair_index,        \* the combination of exchanges the loop is at
    all_opportunities, \* the non-empty frames found so far
    det_result         \* the frame returned

detector_vars == <<spread_data, det_commission, det_tie, unique_order, det_pc,
                   pair_index, all_opportunities, det_result>>

\* StatisticsCollector (its trades are the variable trades)
VARIABLES
    implementation,    \* which StatisticsCollector: "analyzer" or "barbotine"
    results            \* what the latest get_results returned

collector_vars == <<implementation, results>>

\* a simulation constructed from a configuration
VARIABLES
    sim_exchanges,     \* the exchange list of the configuration
    sim_commission,    \* its commission_pct
    sim_asks,          \* first bestAsk > 0 of each exchange, 0 if it has none
    sim_pc,            \* "new", "constructed", "funded", "raised"
    sim_balances,      \* BalanceManager.balances
    sim_replayed,      \* opportunities replayed so far
    sim_symbol,        \* the symbol of the BalanceManager
    sim_opp,           \* the opportunity replayed last
    sim_trades         \* the trades recorded for the simulation

config_vars == <<sim_exchanges, sim_commission, sim_asks, sim_pc, sim_balances,
                 sim_replayed, sim_symbol, sim_opp, sim_trades>>

\* the instances replayed in any interleaving
VARIABLES
    cursor             \* per instance, how many of its opportunities are consumed

interleave_vars == <<cursor>>

\* Backtester.run: the funding of one symbol's instances from the market data
VARIABLES
    funding_impl,      \* which Backtester: "analyzer" or "barbotine"
    market_data,       \* full_data: the quotes loaded, oldest first
    fund_pc,           \* "idle", "loaded", "priced", "funded" or "cloned"
    initial_prices,    \* the records handed to setup_initial_assets
    template_bm,       \* the balances of template_bm
    clones             \* [threshold idx -> balances]: the deep copies

funding_vars == <<funding_impl, market_data, fund_pc, initial_prices, template_bm,
                  clones>>

VARIABLES
    windows,           \* rolling_window.windows: [<<exchange, symbol>> -> window]
    opportunities,     \* the configured (symbol, exchange1, exchange2) rows
    chart_tie,         \* the order DataFrame.sort gives to equal timestamps
    chart_pc,          \* "serving" inside _get_realtime_chart_data, then "returned"
    opp_index,         \* how many opportunities the loop has gone through
    chart_data_list    \* the charts appended so far

chart_vars == <<windows, opportunities, chart_tie, chart_pc, opp_index,
                chart_data_list>>

\* the live arbitrage finder
VARIABLES
    clock,             \* time.time(), in seconds
    state_data,        \* MarketState._data: [<<exchange, symbol>> -> MarketData]
    updates,           \* ArbitrageApp.data_count
    found,             \* the opportunities of the last search
    searched           \* whether the last step was a search

finder_vars == <<clock, state_data, updates, found, searched>>

\* the fake-money live trader
VARIABLES
    trader_clock,      \* time.time(), in seconds
    available_usdt,    \* BalanceManager.available_usdt
    allocated_usdt,    \* BalanceManager.allocated_usdt
    pair_balances,     \* BalanceManager.pair_balances: [symbol -> [exchange -> wallet]]
    active_sessions,   \* MultiPairTrader.active_sessions: [symbol -> TradingSession]
    returned           \* the call made last and whether it started a pair or traded

trader_vars == <<trader_clock, available_usdt, allocated_usdt, pair_balances,
                 active_sessions, returned>>

backtester_vars == <<commission_pct, asks, opps, tieBreak, pc, pos, valid, heap,
                     balance_managers, trades, evaluated, last>>

vars == <<backtester_vars, detector_vars, collector_vars, config_vars, interleave_vars, funding_vars, chart_vars, finder_vars, trader_vars>>

\* the chart server with no window and no request
ChartIdle ==
    /\ windows = <<>> /\ opportunities = <<>> /\ chart_tie = "kept"
    /\ chart_pc = "idle" /\ opp_index = 0 /\ chart_data_list = <<>>

\* the finder before it is started
FinderIdle ==
    /\ clock = 0 /\ state_data = <<>> /\ updates = 0 /\ found = {} /\ searched = FALSE

\* the trader before it is constructed
TraderIdle ==
    /\ trader_clock = 0 /\ available_usdt = 0 /\ allocated_usdt = 0
    /\ pair_balances = <<>> /\ active_sessions = <<>>
    /\ returned = [op |-> "idle", ok |-> FALSE]

\* the detector before it is called
DetectorIdle ==
    /\ spread_data = <<>> /\ det_commission = 0
    /\ det_tie = "kept" /\ unique_order = "kept"
    /\ det_pc = "idle" /\ pair_index = 0
    /\ all_opportunities = <<>> /\ det_result = <<>>

\* no get_results so far
NoResults == [called |-> FALSE]

\* no simulation under construction
ConfigIdle ==
    /\ sim_exchanges = <<>> /\ sim_commission = 0 /\ sim_asks = <<>>
    /\ sim_pc = "idle" /\ sim_balances = <<>> /\ sim_replayed = 0
    /\ sim_symbol = "BTCUSDT" /\ sim_opp = <<>> /\ sim_trades = <<>>

\* no interleaved replay
InterleaveIdle == cursor = <<>>

\* no funding under way
FundingIdle ==
    /\ funding_impl = "analyzer" /\ market_data = <<>> /\ fund_pc = "idle"
    /\ initial_prices = <<>> /\ template_bm = <<>> /\ clones = <<>>

\* the analyzer's collector, as the backtester constructs it
CollectorIdle == implementation = "analyzer" /\ results = NoResults

inputs == <<commission_pct, asks, opps, tieBreak>>

\* ------------------------------------------------------- BalanceManager
\* BalanceManager._initialize_wallets
InitializeWallets ==
    [e \in ExchangeSet |-> [USDT |-> InitialBalance, BASE |-> 0]]

\* BalanceManager.setup_initial_assets, for the exchanges' first asks `ask`
SetupInitialAssets(balances, ask) ==
    [e \in DOMAIN balances |->
        IF ask[e] > 0
        THEN LET usdt_to_swap == FMul(balances[e].USDT, SwapRatio)
                 amount_to_buy == FDiv(usdt_to_swap, ask[e])
             IN  [USDT |-> balances[e].USDT - usdt_to_swap,
                  BASE |-> balances[e].BASE + amount_to_buy]
        ELSE balances[e]]

\* BalanceManager.get_balance with the callers' .get(currency, 0)
GetBalance(balances, exchange) ==
    IF exchange \in DOMAIN balances
    THEN balances[exchange]
    ELSE [USDT |-> 0, BASE |-> 0]

\* symbol.endswith('USDT'), over the symbols of the model
EndsWithUSDT(symbol) == symbol \in {"BTCUSDT", "ETHUSDT"}

\* simulate_trade charging the commission on the USDT spent as well
SimulateTradeFeeOnCost(balances, buy_exchange, sell_exchange, buy_price, sell_price, amount_crypto, commission) ==
    LET cost_usdt == FMul(amount_crypto, buy_price)
        revenue_usdt == FMul(amount_crypto, sell_price)
        rate == FDiv(commission, Lit(100))
        b1 == [balances EXCEPT
                 ![buy_exchange].USDT = @ - (cost_usdt + FMul(cost_usdt, rate))]
        b2 == [b1 EXCEPT
                 ![buy_exchange].BASE = @ + (amount_crypto - FMul(amount_crypto, rate))]
        b3 == [b2 EXCEPT
                 ![sell_exchange].BASE = @ - amount_crypto]
    IN  [b3 EXCEPT
           ![sell_exchange].USDT = @ + (revenue_usdt - FMul(revenue_usdt, rate))]

\* simulate_trade crediting the bought amount without the commission taken
SimulateTradeFullCredit(balances, buy_exchange, sell_exchange, buy_price, sell_price, amount_crypto, commission) ==
    LET cost_usdt == FMul(amount_crypto, buy_price)
        revenue_usdt == FMul(amount_crypto, sell_price)
        rate == FDiv(commission, Lit(100))
        b1 == [balances EXCEPT ![buy_exchange].USDT = @ - cost_usdt]
        b2 == [b1 EXCEPT ![buy_exchange].BASE = @ + amount_crypto]
        b3 == [b2 EXCEPT ![sell_exchange].BASE = @ - amount_crypto]
    IN  [b3 EXCEPT
           ![sell_exchange].USDT = @ + (revenue_usdt - FMul(revenue_usdt, rate))]

\* BalanceManager.simulate_trade: the balances after the trade
SimulateTrade(balances, buy_exchange, sell_exchange, buy_price, sell_price, amount_crypto, commission) ==
    LET cost_usdt == FMul(amount_crypto, buy_price)
        revenue_usdt == FMul(amount_crypto, sell_price)
        buy_commission_crypto == FMul(amount_crypto, FDiv(commission, Lit(100)))
        sell_commission_usdt == FMul(revenue_usdt, FDiv(commission, Lit(100)))
        b1 == [balances EXCEPT
                 ![buy_exchange].USDT = @ - cost_usdt]
        b2 == [b1 EXCEPT
                 ![buy_exchange].BASE = @ + (amount_crypto - buy_commission_crypto)]
        b3 == [b2 EXCEPT
                 ![sell_exchange].BASE = @ - amount_crypto]
    IN  [b3 EXCEPT
           ![sell_exchange].USDT = @ + (revenue_usdt - sell_commission_usdt)]

\* --------------------------------------------------- StatisticsCollector
\* StatisticsCollector.record_trade: the row appended to trades_df
TradeRecord(profit_threshold, symbol, buy_exchange, sell_exchange, net_profit_pct, amount_usdt) ==
    [profit_threshold |-> profit_threshold,
     symbol |-> symbol,
     buy_exchange |-> buy_exchange,
     sell_exchange |-> sell_exchange,
     net_profit_pct |-> net_profit_pct,
     amount_usdt |-> amount_usdt,
     profit_usdt |-> FMul(amount_usdt, FDiv(net_profit_pct, Lit(100)))]

\* ------------------------------------------------------------ Backtester
\* the (symbol, threshold) instances in the order the loops visit them
Instances ==
    [k \in 1..(Len(Symbols) * Len(ProfitThresholds)) |->
        [symbol |-> Symbols[((k - 1) \div Len(ProfitThresholds)) + 1],
         ti |-> ((k - 1) % Len(ProfitThresholds)) + 1]]

InstanceIdx == 1..Len(Instances)

\* the filter left out
KeepAllRows(seq, threshold) == seq

\* the filter with the comparison turned round
FilterBelowThreshold(seq, threshold) ==
    SelectSeq(seq, LAMBDA row : row.profit_pct <= threshold)

\* opportunities_df.filter(pl.col('profit_pct') >= threshold)
RECURSIVE FilterByThreshold(_, _)
FilterByThreshold(seq, threshold) ==
    IF seq = <<>> THEN <<>>
    ELSE IF Head(seq).profit_pct >= threshold
         THEN <<Head(seq)>> \o FilterByThreshold(Tail(seq), threshold)
         ELSE FilterByThreshold(Tail(seq), threshold)

RECURSIVE Reverse(_)
Reverse(seq) ==
    IF seq = <<>> THEN <<>> ELSE Reverse(Tail(seq)) \o <<Head(seq)>>

\* one row put in its place among rows already in timestamp order
RECURSIVE InsertByTimestamp(_, _)
InsertByTimestamp(row, sorted) ==
    IF sorted = <<>> THEN <<row>>
    ELSE IF Head(sorted).timestamp <= row.timestamp
         THEN <<Head(sorted)>> \o InsertByTimestamp(row, Tail(sorted))
         ELSE <<row>> \o sorted

RECURSIVE StableSort(_)
StableSort(seq) ==
    IF seq = <<>> THEN <<>>
    ELSE InsertByTimestamp(seq[Len(seq)], StableSort(SubSeq(seq, 1, Len(seq) - 1)))

\* the sort left out
UnsortedRows(seq, tie) == seq

\* DataFrame.sort('timestamp'): ascending; maintain_order is not asked for, so
\* rows of equal timestamp come out in an order the library chooses (tie)
SortByTimestamp(seq, tie) ==
    IF tie = "kept" THEN StableSort(seq) ELSE StableSort(Reverse(seq))

\* _processing_loop: valid_opportunities of one instance
ValidOpportunities(symbol_opps, threshold, tie) ==
    SortByTimestamp(FilterByThreshold(symbol_opps, threshold), tie)

Valid(k) ==
    ValidOpportunities(opps[Instances[k].symbol], ProfitThresholds[Instances[k].ti], tieBreak)

\* the next instance from k on whose list is not empty (the loops `continue`
\* over the others); Len(Instances) + 1 when there is none
RECURSIVE NextInstance(_)
NextInstance(k) ==
    IF k > Len(Instances) THEN k
    ELSE IF Valid(k) # <<>> THEN k
    ELSE NextInstance(k + 1)

\* the position after opportunity i of instance k, whose list is `list`
Advance(k, i, list) ==
    IF i < Len(list) THEN <<k, i + 1>> ELSE <<NextInstance(k + 1), 1>>

\* the list replayed at position p, the current list being `list`
ListAt(p, k, list) ==
    IF p[1] = k THEN list ELSE IF p[1] > Len(Instances) THEN <<>> ELSE Valid(p[1])

\* the template itself handed out instead of a copy
SharedReference(template, fresh) == template

\* copy.deepcopy(template_bm): a new object, `fresh`, with the template's content
DeepCopy(template, fresh) == fresh

\* the object ids: <<symbol, 0>> the template, <<symbol, ti>> its clones
ObjectIds == SymbolSet \X (0..Len(ProfitThresholds))

\* the balances of instance k
Wallets(k) == heap[balance_managers[Instances[k].symbol][Instances[k].ti]]

NoLocals == [k |-> 0]

\* the backtester before it is constructed
BacktesterIdle ==
    /\ commission_pct = 0 /\ asks = <<>> /\ opps = <<>> /\ tieBreak = "kept"
    /\ pc = "idle" /\ pos = <<0, 0>> /\ valid = <<>> /\ heap = <<>>
    /\ balance_managers = <<>> /\ trades = <<>> /\ evaluated = <<>>
    /\ last = NoLocals

\* ------------------------------------------------------------------- inputs
\* a row of the detector's output (_find_pair_opportunities' select)
Opportunity(timestamp, shape, commission) ==
    [timestamp |-> timestamp,
     buy_exchange |-> shape[1], buy_price |-> shape[3],
     sell_exchange |-> shape[2], sell_price |-> shape[4],
     profit_pct |-> ProfitPct(shape[4], shape[3], commission)]

\* the rows the detector can emit: two exchanges, positive bids, the sell bid
\* above the buy bid, profit_pct > 0
OppSet(commission, shapes, times) ==
    {o \in {Opportunity(t, sh, commission) : t \in times, sh \in shapes} :
        /\ o.buy_exchange # o.sell_exchange
        /\ o.buy_price > 0 /\ o.sell_price > o.buy_price
        /\ o.profit_pct > 0}

\* the frames of up to n rows, in any order, no row twice
SeqsUpTo(S, n) ==
    UNION {{f \in [1..m -> S] : \A i, j \in 1..m : i # j => f[i] # f[j]} : m \in 0..n}

\* the first symbol has up to MaxOpps opportunities, every other symbol at
\* most one, at time 1
OppLists(commission) ==
    [SymbolSet \ {Symbols[1]} -> SeqsUpTo(OppSet(commission, OtherShapeSet, {1}), 1)]

\* only the first exchange may have no first ask
AskProfiles ==
    {f \in [ExchangeSet -> AskSet] : \A i \in 2..Len(Exchanges) : f[Exchanges[i]] > 0}

Init ==
    /\ commission_pct \in CommissionSet
    /\ asks \in AskProfiles
    /\ \E first \in SeqsUpTo(OppSet(commission_pct, ShapeSet, TimeSet), MaxOpps) :
       \E others \in OppLists(commission_pct) :
          opps = [s \in SymbolSet |-> IF s = Symbols[1] THEN first ELSE others[s]]
    /\ tieBreak \in {"kept", "reversed"}
    /\ pc = "init"
    /\ pos = <<0, 0>>
    /\ valid = <<>>
    /\ heap = <<>>
    /\ balance_managers = <<>>
    /\ trades = <<>>
    /\ evaluated = [k \in InstanceIdx |-> <<>>]
    /\ last = NoLocals
    /\ DetectorIdle
    /\ CollectorIdle
    /\ ConfigIdle
    /\ InterleaveIdle
    /\ FundingIdle
    /\ ChartIdle
    /\ FinderIdle
    /\ TraderIdle

\* ------------------------------------------------------------------ actions
\* Backtester.run up to the call of _processing_loop: one template per symbol,
\* funded, and one deep copy of it per threshold; then the loops run up to the
\* first opportunity to evaluate
Run ==
    /\ pc = "init"
    /\ heap' = [o \in ObjectIds |-> SetupInitialAssets(InitializeWallets, asks)]
    /\ balance_managers' =
          [s \in SymbolSet |-> [ti \in ThresholdIdx |-> DeepCopy(<<s, 0>>, <<s, ti>>)]]
    /\ LET first == NextInstance(1)
       IN  /\ pos' = <<first, 1>>
           /\ valid' = ListAt(<<first, 1>>, 0, <<>>)
           /\ pc' = IF first > Len(Instances) THEN "done" ELSE "replay"
    /\ UNCHANGED <<inputs, trades, evaluated, last, detector_vars, collector_vars, config_vars,
                   interleave_vars, funding_vars, chart_vars, finder_vars, trader_vars>>

\* the epsilon check left out
NeverDust(amount) == FALSE

\* `if trade_amount_crypto < 1e-9: continue`
IsDust(amount) == amount < Epsilon

\* the amount sized by the buy side alone
LocalsBuySideOnly(k, opp, balances) ==
    LET max_buy_crypto == FDiv(GetBalance(balances, opp.buy_exchange).USDT, opp.buy_price)
    IN  [k |-> k, opp |-> opp,
         max_buy_crypto |-> max_buy_crypto,
         max_sell_crypto |-> GetBalance(balances, opp.sell_exchange).BASE,
         trade_amount_crypto |-> max_buy_crypto]

\* the locals of one iteration of _simulate_trades_for_instance
Locals(k, opp, balances) ==
    LET buy_wallet == GetBalance(balances, opp.buy_exchange)
        sell_wallet == GetBalance(balances, opp.sell_exchange)
        max_buy_crypto ==
            IF opp.buy_price > 0 THEN FDiv(buy_wallet.USDT, opp.buy_price) ELSE 0
        max_sell_crypto == sell_wallet.BASE
    IN  [k |-> k, opp |-> opp,
         max_buy_crypto |-> max_buy_crypto,
         max_sell_crypto |-> max_sell_crypto,
         trade_amount_crypto |-> Min(max_buy_crypto, max_sell_crypto)]

\* the state after one iteration has evaluated opportunity i of instance k
Iteration(k, i) ==
    LET symbol == Instances[k].symbol
        threshold == ProfitThresholds[Instances[k].ti]
        id == balance_managers[symbol][Instances[k].ti]
        opp == valid[i]
        loc == Locals(k, opp, heap[id])
        amount == loc.trade_amount_crypto
        success == EndsWithUSDT(symbol)
        trade_value_usdt == FMul(amount, opp.buy_price)
    IN  /\ evaluated' = [evaluated EXCEPT ![k] = Append(@, opp)]
        /\ IF IsDust(amount)
           THEN /\ last' = loc @@ [executed |-> FALSE]
                /\ UNCHANGED <<heap, trades>>
           ELSE /\ last' = loc @@ [executed |-> success]
                /\ heap' = IF success
                           THEN [heap EXCEPT ![id] =
                                   SimulateTrade(@, opp.buy_exchange, opp.sell_exchange,
                                                 opp.buy_price, opp.sell_price, amount,
                                                 commission_pct)]
                           ELSE heap
                /\ trades' = IF success
                             THEN Append(trades,
                                    TradeRecord(threshold, symbol, opp.buy_exchange,
                                                opp.sell_exchange, opp.profit_pct,
                                                trade_value_usdt))
                             ELSE trades
        /\ LET p == Advance(k, i, valid)
           IN  /\ pos' = p
               /\ valid' = ListAt(p, k, valid)
               /\ pc' = IF p[1] > Len(Instances) THEN "done" ELSE "replay"
        /\ UNCHANGED <<inputs, balance_managers, detector_vars, collector_vars, config_vars,
                       interleave_vars, funding_vars, chart_vars, finder_vars, trader_vars>>

\* one iteration whose amount is below the epsilon: `continue`
Skip ==
    /\ pc = "replay"
    /\ IsDust(Locals(pos[1], valid[pos[2]], Wallets(pos[1])).trade_amount_crypto)
    /\ Iteration(pos[1], pos[2])

\* one iteration that books the trade and records it
Execute ==
    /\ pc = "replay"
    /\ ~IsDust(Locals(pos[1], valid[pos[2]], Wallets(pos[1])).trade_amount_crypto)
    /\ Iteration(pos[1], pos[2])

Next == Run \/ Skip \/ Execute

Spec == Init /\ [][Next]_vars

\* ------------------------------------- MultiExchangeArbitrageAnalyzer
\* timestamps and bids of the quotes; a bid of 0 is a quote without a price
QuoteTimes == {0, 1, 2}
BidSet == {Lit(4), Lit(5)}
QuoteSet ==
    {[exchange |-> e, timestamp |-> t, bestBid |-> b] :
        e \in ExchangeSet, t \in QuoteTimes, b \in BidSet}
    \cup {[exchange |-> Exchanges[2], timestamp |-> 0, bestBid |-> 0]}

\* the quotes of the specification's scenario: A(t=0, 100), B(t=0, 99),
\* A(t=1, 100), B(t=1, 102), commission 0.2
ScenarioQuotes ==
    <<[exchange |-> "A", timestamp |-> 0, bestBid |-> Lit(100)],
      [exchange |-> "B", timestamp |-> 0, bestBid |-> Lit(99)],
      [exchange |-> "A", timestamp |-> 1, bestBid |-> Lit(100)],
      [exchange |-> "B", timestamp |-> 1, bestBid |-> Lit(102)]>>
ScenarioCommission == FDiv(Lit(1), Lit(5))

\* the subsets of S with at most n elements
RECURSIVE SubsetsUpTo(_, _)
SubsetsUpTo(S, n) ==
    IF n = 0 THEN {{}}
    ELSE LET smaller == SubsetsUpTo(S, n - 1)
         IN  smaller \cup {p \cup {x} : p \in smaller, x \in S}

\* the rows of a set as a frame, in some order
RECURSIVE SetToSeq(_)
SetToSeq(S) ==
    IF S = {} THEN <<>>
    ELSE LET x == CHOOSE y \in S : TRUE IN <<x>> \o SetToSeq(S \ {x})

\* spread_data.filter(pl.col('exchange') == ex)
FilterExchange(frame, ex) == SelectSeq(frame, LAMBDA row : row.exchange = ex)

\* the exchanges of the frame, each once, in order of first appearance
RECURSIVE FirstAppearances(_, _)
FirstAppearances(frame, seen) ==
    IF frame = <<>> THEN <<>>
    ELSE IF Head(frame).exchange \in seen
         THEN FirstAppearances(Tail(frame), seen)
         ELSE <<Head(frame).exchange>>
                \o FirstAppearances(Tail(frame), seen \cup {Head(frame).exchange})

\* the exchange column as it stands, an exchange as often as it has quotes
ExchangeColumn(frame, order) ==
    IF order = "kept" THEN [i \in 1..Len(frame) |-> frame[i].exchange]
    ELSE Reverse([i \in 1..Len(frame) |-> frame[i].exchange])

\* spread_data['exchange'].unique().to_list(): maintain_order is not asked
\* for, so the order is the library's (order)
UniqueExchanges(frame, order) ==
    IF order = "kept" THEN FirstAppearances(frame, {})
    ELSE Reverse(FirstAppearances(frame, {}))

\* only neighbouring exchanges compared
AdjacentPairs(list) == [i \in 1..(Len(list) - 1) |-> <<list[i], list[i + 1]>>]

\* itertools.combinations(list, 2), in its order
Combinations2(list) ==
    LET n == Len(list)
        before(i) == ((i - 1) * (2 * n - i)) \div 2
        first(m) == CHOOSE i \in 1..n : before(i) < m /\ m <= before(i + 1)
    IN  [m \in 1..((n * (n - 1)) \div 2) |->
            <<list[first(m)], list[first(m) + m - before(first(m))]>>]

\* the join looking forwards: the first right row at or after the left one
JoinAsofForward(df_left, df_right) ==
    [i \in 1..Len(df_left) |->
        LET later == {j \in 1..Len(df_right) :
                         df_right[j].timestamp >= df_left[i].timestamp}
        IN  IF later = {}
            THEN [timestamp |-> df_left[i].timestamp, bestBid |-> df_left[i].bestBid,
                  matched |-> FALSE, bestBid_right |-> 0]
            ELSE [timestamp |-> df_left[i].timestamp, bestBid |-> df_left[i].bestBid,
                  matched |-> TRUE,
                  bestBid_right |->
                      df_right[CHOOSE j \in later : \A h \in later : j <= h].bestBid]]

\* df_left.join_asof(df_right_renamed, on='timestamp'), strategy backward: to
\* every left row the last right row with timestamp <= its own, or nulls
JoinAsof(df_left, df_right) ==
    [i \in 1..Len(df_left) |->
        LET earlier == {j \in 1..Len(df_right) :
                           df_right[j].timestamp <= df_left[i].timestamp}
        IN  IF earlier = {}
            THEN [timestamp |-> df_left[i].timestamp, bestBid |-> df_left[i].bestBid,
                  matched |-> FALSE, bestBid_right |-> 0]
            ELSE [timestamp |-> df_left[i].timestamp, bestBid |-> df_left[i].bestBid,
                  matched |-> TRUE,
                  bestBid_right |->
                      df_right[CHOOSE j \in earlier : \A h \in earlier : j >= h].bestBid]]

\* the filter on the joined frame: both bids positive (a null is not), the
\* left bid above the right one
ValidPrices(row) ==
    /\ row.matched
    /\ row.bestBid > 0 /\ row.bestBid_right > 0
    /\ row.bestBid > row.bestBid_right

\* the opportunity made of a joined row: buy on the right, sell on the left
OpportunityOf(row, exchange_left, exchange_right, commission) ==
    Opportunity(row.timestamp,
                <<exchange_right, exchange_left, row.bestBid_right, row.bestBid>>,
                commission)

RECURSIVE ProfitableOpps(_, _, _, _)
ProfitableOpps(joined, exchange_left, exchange_right, commission) ==
    IF joined = <<>> THEN <<>>
    ELSE LET rest == ProfitableOpps(Tail(joined), exchange_left, exchange_right, commission)
         IN  IF ValidPrices(Head(joined))
             THEN LET o == OpportunityOf(Head(joined), exchange_left, exchange_right,
                                         commission)
                  IN  IF o.profit_pct > 0 THEN <<o>> \o rest ELSE rest
             ELSE rest

\* MultiExchangeArbitrageAnalyzer._find_pair_opportunities
FindPairOpportunities(df_left, df_right, exchange_left, exchange_right, commission) ==
    ProfitableOpps(JoinAsof(df_left, df_right), exchange_left, exchange_right, commission)

\* one direction of the pair only
ComparePairOneWay(all, frame, pair, commission, tie) ==
    LET df_a == SortByTimestamp(FilterExchange(frame, pair[1]), tie)
        df_b == SortByTimestamp(FilterExchange(frame, pair[2]), tie)
        opps_a == FindPairOpportunities(df_a, df_b, pair[1], pair[2], commission)
    IN  IF opps_a = <<>> THEN all ELSE Append(all, opps_a)

\* one iteration of `for ex_a, ex_b in combinations(unique_exchanges, 2)`:
\* all_opportunities after it
ComparePair(all, frame, pair, commission, tie) ==
    LET df_a == SortByTimestamp(FilterExchange(frame, pair[1]), tie)
        df_b == SortByTimestamp(FilterExchange(frame, pair[2]), tie)
        opps_a == FindPairOpportunities(df_a, df_b, pair[1], pair[2], commission)
        opps_b == FindPairOpportunities(df_b, df_a, pair[2], pair[1], commission)
        with_a == IF opps_a = <<>> THEN all ELSE Append(all, opps_a)
    IN  IF df_a = <<>> \/ df_b = <<>> THEN all
        ELSE IF opps_b = <<>> THEN with_a ELSE Append(with_a, opps_b)

\* pl.concat(all_opportunities)
RECURSIVE Concat(_)
Concat(frames) ==
    IF frames = <<>> THEN <<>> ELSE Head(frames) \o Concat(Tail(frames))

\* the loop over the pairs, from all_opportunities = all
RECURSIVE ComparePairs(_, _, _, _, _)
ComparePairs(all, frame, pairs, commission, tie) ==
    IF pairs = <<>> THEN all
    ELSE ComparePairs(ComparePair(all, frame, Head(pairs), commission, tie),
                      frame, Tail(pairs), commission, tie)

\* MultiExchangeArbitrageAnalyzer.find_maker_taker_opportunities, as a whole
FindMakerTakerOpportunities(frame, commission, tie, order) ==
    IF frame = <<>> THEN <<>>
    ELSE IF Len(UniqueExchanges(frame, order)) < 2 THEN <<>>
    ELSE LET all == ComparePairs(<<>>, frame,
                                 Combinations2(UniqueExchanges(frame, order)),
                                 commission, tie)
         IN  IF all = <<>> THEN <<>> ELSE Concat(all)

\* the frames the detector is given: up to MaxQuotes quotes, and the scenario
SpreadFrames ==
    {SetToSeq(q) : q \in SubsetsUpTo(QuoteSet, MaxQuotes)} \cup {ScenarioQuotes}

DetectorInit ==
    /\ spread_data \in SpreadFrames
    /\ det_commission \in CommissionSet \cup {ScenarioCommission}
    /\ det_tie \in {"kept", "reversed"}
    /\ unique_order \in {"kept", "reversed"}
    /\ det_pc = "start"
    /\ pair_index = 0
    /\ all_opportunities = <<>>
    /\ det_result = <<>>
    /\ BacktesterIdle
    /\ CollectorIdle
    /\ ConfigIdle
    /\ InterleaveIdle
    /\ FundingIdle
    /\ ChartIdle
    /\ FinderIdle
    /\ TraderIdle

\* no data, or the symbol on fewer than two exchanges: an empty frame
ReturnEmpty ==
    /\ det_pc = "start"
    /\ spread_data = <<>> \/ Len(UniqueExchanges(spread_data, unique_order)) < 2
    /\ det_result' = <<>>
    /\ det_pc' = "returned"
    /\ UNCHANGED <<spread_data, det_commission, det_tie, unique_order, pair_index,
                   all_opportunities, backtester_vars, collector_vars, config_vars,
                   interleave_vars, funding_vars, chart_vars, finder_vars, trader_vars>>

\* the loop over the pairs of exchanges is entered
EnterPairs ==
    /\ det_pc = "start"
    /\ spread_data # <<>> /\ Len(UniqueExchanges(spread_data, unique_order)) >= 2
    /\ all_opportunities' = <<>>
    /\ pair_index' = 1
    /\ det_pc' = "pairs"
    /\ UNCHANGED <<spread_data, det_commission, det_tie, unique_order, det_result,
                   backtester_vars, collector_vars, config_vars, interleave_vars,
                   funding_vars, chart_vars, finder_vars, trader_vars>>

\* one pair of exchanges compared, in both directions
ComparePairStep ==
    /\ det_pc = "pairs"
    /\ pair_index <= Len(Combinations2(UniqueExchanges(spread_data, unique_order)))
    /\ all_opportunities' =
          ComparePair(all_opportunities, spread_data,
                      Combinations2(UniqueExchanges(spread_data, unique_order))[pair_index],
                      det_commission, det_tie)
    /\ pair_index' = pair_index + 1
    /\ UNCHANGED <<spread_data, det_commission, det_tie, unique_order, det_pc,
                   det_result, backtester_vars, collector_vars, config_vars, interleave_vars,
                   funding_vars, chart_vars, finder_vars, trader_vars>>

\* after the loop: nothing found, or the frames found put together
Combine ==
    /\ det_pc = "pairs"
    /\ pair_index > Len(Combinations2(UniqueExchanges(spread_data, unique_order)))
    /\ det_result' = IF all_opportunities = <<>> THEN <<>> ELSE Concat(all_opportunities)
    /\ det_pc' = "returned"
    /\ UNCHANGED <<spread_data, det_commission, det_tie, unique_order, pair_index,
                   all_opportunities, backtester_vars, collector_vars, config_vars,
                   interleave_vars, funding_vars, chart_vars, finder_vars, trader_vars>>

DetectorNext == ReturnEmpty \/ EnterPairs \/ ComparePairStep \/ Combine

DetectorSpec == DetectorInit /\ [][DetectorNext]_vars

\* ---------------------------------------------------- StatisticsCollector
\* a float sum: exact below MantissaLimit, rounded to the significant bits kept
\* from there on
RECURSIVE RoundFloat(_)
RoundFloat(n) ==
    IF n < MantissaLimit THEN n ELSE 2 * RoundFloat(RoundDiv(n, 2))

FAdd(x, y) == RoundFloat(x + y)

\* pl.col("profit_usdt").sum() / sum(t.profit_usdt for t in self.trades): the
\* values added up one after the other, in the order of the rows
RECURSIVE SumFrom(_, _)
SumFrom(acc, values) ==
    IF values = <<>> THEN acc ELSE SumFrom(FAdd(acc, Head(values)), Tail(values))

SumProfit(frame) == SumFrom(0, [i \in 1..Len(frame) |-> frame[i].profit_usdt])

\* the place of an exchange in the order of the names
ExchangeRank(e) == CHOOSE i \in 1..Len(Exchanges) : Exchanges[i] = e

\* <<min_horizontal, max_horizontal>> of buy_exchange and sell_exchange
PairKey(row) ==
    IF ExchangeRank(row.buy_exchange) <= ExchangeRank(row.sell_exchange)
    THEN <<row.buy_exchange, row.sell_exchange>>
    ELSE <<row.sell_exchange, row.buy_exchange>>

\* group_by(["ex1", "ex2"]).agg(pl.len()): the count of each pair
PairCounts(frame) ==
    [key \in {PairKey(frame[i]) : i \in 1..Len(frame)} |->
        Cardinality({i \in 1..Len(frame) : PairKey(frame[i]) = key})]

\* frame.filter(pl.col("symbol") == symbol), and the same for the threshold
FilterSymbol(frame, symbol) == SelectSeq(frame, LAMBDA row : row.symbol = symbol)
FilterThreshold(frame, threshold) ==
    SelectSeq(frame, LAMBDA row : row.profit_threshold = threshold)

\* the values of a column, each once
SymbolsOf(frame) == {frame[i].symbol : i \in 1..Len(frame)}
ThresholdsOf(frame) == {frame[i].profit_threshold : i \in 1..Len(frame)}

\* analyzer/backtester/statistics_collector.py: StatisticsCollector.get_results
GetResults(frame) ==
    IF frame = <<>> THEN [empty |-> TRUE]
    ELSE [empty |-> FALSE,
          total_trades |-> Len(frame),
          total_profit |-> SumProfit(frame),
          by_symbol |->
            [symbol \in SymbolsOf(frame) |->
                LET symbol_df == FilterSymbol(frame, symbol)
                IN  [total_profit |-> SumProfit(symbol_df),
                     total_trades |-> Len(symbol_df),
                     by_threshold |->
                        [threshold \in ThresholdsOf(symbol_df) |->
                            LET threshold_df == FilterThreshold(symbol_df, threshold)
                            IN  [profit |-> SumProfit(threshold_df),
                                 trades |-> Len(threshold_df),
                                 pair_counts |-> PairCounts(threshold_df)]]]]]

\* barbotine-arbitrage-bot-main/backtester/statistics_collector.py:
\* StatisticsCollector.get_results; nothing ever fills a bucket's pair_counts,
\* v.get("pair_counts", {}) is the empty dict
GetResultsBarbotine(frame) ==
    IF frame = <<>> THEN [empty |-> TRUE]
    ELSE [empty |-> FALSE,
          total_trades |-> Len(frame),
          total_profit |-> SumProfit(frame),
          by_symbol |->
            [symbol \in SymbolsOf(frame) |->
                LET symbol_df == FilterSymbol(frame, symbol)
                IN  [total_profit |-> SumProfit(symbol_df),
                     total_trades |-> Len(symbol_df),
                     by_threshold |->
                        [threshold \in ThresholdsOf(symbol_df) |->
                            LET threshold_df == FilterThreshold(symbol_df, threshold)
                            IN  [profit |-> SumProfit(threshold_df),
                                 trades |-> Len(threshold_df),
                                 pair_counts |-> <<>>]]]],
          stationarity_metrics |-> <<>>]

\* get_results of the implementation constructed
GetResultsOf(impl, frame) ==
    IF impl = "analyzer" THEN GetResults(frame) ELSE GetResultsBarbotine(frame)

\* the new row put in the place of the frame
ReplaceTrades(frame, row) == <<row>>

\* record_trade: pl.concat([self.trades_df, trade_df]) / self.trades.append(trade)
AppendTrade(frame, row) == Append(frame, row)

\* what record_trade is called with: three (symbol, threshold) instances,
\* trades in either direction between two exchanges and to a third one, a
\* net_profit_pct of 95 and an amount of 1.0 or 2.0 USDT
RecordedBuckets ==
    {<<Symbols[1], ProfitThresholds[1]>>, <<Symbols[1], ProfitThresholds[2]>>,
     <<Symbols[2], ProfitThresholds[1]>>}
RecordedDirections ==
    {<<Exchanges[1], Exchanges[2]>>, <<Exchanges[2], Exchanges[1]>>,
     <<Exchanges[1], Exchanges[3]>>}
RecordedAmounts == {Lit(1), Lit(2)}
RecordedProfitPct == Lit(95)

CollectorInit ==
    /\ implementation \in {"analyzer", "barbotine"}
    /\ results = NoResults
    /\ BacktesterIdle
    /\ DetectorIdle
    /\ ConfigIdle
    /\ InterleaveIdle
    /\ FundingIdle
    /\ ChartIdle
    /\ FinderIdle
    /\ TraderIdle

\* StatisticsCollector.record_trade
RecordTrade ==
    /\ pc = "idle"
    /\ Len(trades) < MaxTrades
    /\ \E bucket \in RecordedBuckets : \E direction \in RecordedDirections :
       \E amount_usdt \in RecordedAmounts :
          trades' = AppendTrade(trades,
                       TradeRecord(bucket[2], bucket[1], direction[1], direction[2],
                                   RecordedProfitPct, amount_usdt))
    /\ results' = NoResults
    /\ UNCHANGED <<commission_pct, asks, opps, tieBreak, pc, pos, valid, heap,
                   balance_managers, evaluated, last, implementation, detector_vars, config_vars,
                   interleave_vars, funding_vars, chart_vars, finder_vars, trader_vars>>

\* StatisticsCollector.get_results
GetResultsCall ==
    /\ pc = "idle"
    /\ results = NoResults
    /\ results' = [called |-> TRUE, value |-> GetResultsOf(implementation, trades)]
    /\ UNCHANGED <<backtester_vars, implementation, detector_vars, config_vars, interleave_vars,
                   funding_vars, chart_vars, finder_vars, trader_vars>>

CollectorNext == RecordTrade \/ GetResultsCall

CollectorSpec == CollectorInit /\ [][CollectorNext]_vars

\* ------------------------------------------ a simulation from its configuration
\* BalanceManager._initialize_wallets for the exchange list given
InitializeWalletsOf(exchanges) ==
    [e \in {exchanges[i] : i \in 1..Len(exchanges)} |->
        [USDT |-> InitialBalance, BASE |-> 0]]

\* the exchange lists and the commissions a configuration may hold
ExchangeLists == {<<>>, <<"A">>, <<"A", "B">>, <<"A", "B", "C">>}
CommissionConfigs == {-Lit(1), 0, Lit(25)}

\* the opportunities replayed
ReplayShapes == ShapeSet \cup OtherShapeSet

\* the symbols a BalanceManager may be given
SimSymbols == {"BTCUSDT", "BTCUSD"}

\* simulate_trade up to a KeyError on the wallet of the sell exchange: the buy
\* side is booked
BuyLegBooked(balances, buy_exchange, buy_price, amount_crypto, commission) ==
    LET cost_usdt == FMul(amount_crypto, buy_price)
        buy_commission_crypto == FMul(amount_crypto, FDiv(commission, Lit(100)))
        b1 == [balances EXCEPT ![buy_exchange].USDT = @ - cost_usdt]
    IN  [b1 EXCEPT ![buy_exchange].BASE = @ + (amount_crypto - buy_commission_crypto)]

ConfigInit ==
    /\ sim_exchanges \in ExchangeLists
    /\ sim_commission \in CommissionConfigs
    /\ sim_asks \in AskProfiles
    /\ sim_pc = "new"
    /\ sim_balances = <<>>
    /\ sim_replayed = 0
    /\ sim_symbol \in SimSymbols
    /\ sim_opp = <<>>
    /\ sim_trades = <<>>
    /\ BacktesterIdle
    /\ DetectorIdle
    /\ CollectorIdle
    /\ InterleaveIdle
    /\ FundingIdle
    /\ ChartIdle
    /\ FinderIdle
    /\ TraderIdle

\* BalanceManager.__init__: nothing is validated, a wallet per listed exchange
Construct ==
    /\ sim_pc = "new"
    /\ sim_balances' = InitializeWalletsOf(sim_exchanges)
    /\ sim_pc' = "constructed"
    /\ UNCHANGED <<sim_exchanges, sim_commission, sim_asks, sim_replayed,
                   sim_symbol, sim_opp, sim_trades, backtester_vars, detector_vars, collector_vars, interleave_vars,
                   funding_vars, chart_vars, finder_vars, trader_vars>>

\* BalanceManager.setup_initial_assets
Fund ==
    /\ sim_pc = "constructed"
    /\ sim_balances' = SetupInitialAssets(sim_balances, sim_asks)
    /\ sim_pc' = "funded"
    /\ UNCHANGED <<sim_exchanges, sim_commission, sim_asks, sim_replayed,
                   sim_symbol, sim_opp, sim_trades, backtester_vars, detector_vars, collector_vars, interleave_vars,
                   funding_vars, chart_vars, finder_vars, trader_vars>>

\* one iteration of _simulate_trades_for_instance on the simulation's wallets
Replay ==
    /\ sim_pc = "funded"
    /\ sim_replayed < MaxOpps
    /\ \E shape \in ReplayShapes :
          LET opp == Opportunity(sim_replayed, shape, sim_commission)
              amount == Locals(0, opp, sim_balances).trade_amount_crypto
              success == EndsWithUSDT(sim_symbol)
              called == ~IsDust(amount)
              no_buy_wallet == opp.buy_exchange \notin DOMAIN sim_balances
              no_sell_wallet == opp.sell_exchange \notin DOMAIN sim_balances
              key_error == called /\ success /\ (no_buy_wallet \/ no_sell_wallet)
              booked == called /\ success /\ ~key_error
              trade_value_usdt == FMul(amount, opp.buy_price)
          IN  /\ sim_opp' = opp
              /\ sim_pc' = IF key_error THEN "raised" ELSE sim_pc
              /\ sim_balances' =
                    IF booked
                    THEN SimulateTrade(sim_balances, opp.buy_exchange, opp.sell_exchange,
                                       opp.buy_price, opp.sell_price, amount,
                                       sim_commission)
                    ELSE IF key_error /\ ~no_buy_wallet
                    THEN BuyLegBooked(sim_balances, opp.buy_exchange, opp.buy_price,
                                      amount, sim_commission)
                    ELSE sim_balances
              /\ sim_trades' =
                    IF booked
                    THEN Append(sim_trades,
                                TradeRecord(ProfitThresholds[1], sim_symbol,
                                            opp.buy_exchange, opp.sell_exchange,
                                            opp.profit_pct, trade_value_usdt))
                    ELSE sim_trades
    /\ sim_replayed' = sim_replayed + 1
    /\ UNCHANGED <<sim_exchanges, sim_commission, sim_asks, sim_symbol,
                   backtester_vars, detector_vars, collector_vars, interleave_vars,
                   funding_vars, chart_vars, finder_vars, trader_vars>>

ConfigNext == Construct \/ Fund \/ Replay

ConfigSpec == ConfigInit /\ [][ConfigNext]_vars

\* ------------------------------------ the instances in any interleaving
\* the inputs of Init, the first symbol with up to MaxInterleaved opportunities
InterleavedInit ==
    /\ commission_pct \in CommissionSet
    /\ asks \in AskProfiles
    /\ \E first \in SeqsUpTo(OppSet(commission_pct, ShapeSet, TimeSet), MaxInterleaved) :
       \E others \in OppLists(commission_pct) :
          opps = [s \in SymbolSet |-> IF s = Symbols[1] THEN first ELSE others[s]]
    /\ tieBreak = "kept"
    /\ pc = "init"
    /\ pos = <<0, 0>>
    /\ valid = <<>>
    /\ heap = <<>>
    /\ balance_managers = <<>>
    /\ trades = <<>>
    /\ evaluated = [k \in InstanceIdx |-> <<>>]
    /\ last = NoLocals
    /\ cursor = [k \in InstanceIdx |-> 0]
    /\ DetectorIdle
    /\ CollectorIdle
    /\ ConfigIdle
    /\ FundingIdle
    /\ ChartIdle
    /\ FinderIdle
    /\ TraderIdle

\* Backtester.run up to the call of _processing_loop, as Run
Launch ==
    /\ pc = "init"
    /\ heap' = [o \in ObjectIds |-> SetupInitialAssets(InitializeWallets, asks)]
    /\ balance_managers' =
          [s \in SymbolSet |-> [ti \in ThresholdIdx |-> DeepCopy(<<s, 0>>, <<s, ti>>)]]
    /\ pc' = "interleaved"
    /\ UNCHANGED <<inputs, pos, valid, trades, evaluated, last, cursor,
                   detector_vars, collector_vars, config_vars, funding_vars, chart_vars,
                   finder_vars, trader_vars>>

\* one iteration of _simulate_trades_for_instance for instance k, whichever
\* instance took the step before; record_trade is part of the step
StepInstance(k) ==
    LET symbol == Instances[k].symbol
        threshold == ProfitThresholds[Instances[k].ti]
        id == balance_managers[symbol][Instances[k].ti]
        opp == Valid(k)[cursor[k] + 1]
        loc == Locals(k, opp, heap[id])
        amount == loc.trade_amount_crypto
        success == EndsWithUSDT(symbol)
        trade_value_usdt == FMul(amount, opp.buy_price)
    IN  /\ pc = "interleaved"
        /\ cursor[k] < Len(Valid(k))
        /\ cursor' = [cursor EXCEPT ![k] = @ + 1]
        /\ evaluated' = [evaluated EXCEPT ![k] = Append(@, opp)]
        /\ IF IsDust(amount)
           THEN /\ last' = loc @@ [executed |-> FALSE]
                /\ UNCHANGED <<heap, trades>>
           ELSE /\ last' = loc @@ [executed |-> success]
                /\ heap' = IF success
                           THEN [heap EXCEPT ![id] =
                                   SimulateTrade(@, opp.buy_exchange, opp.sell_exchange,
                                                 opp.buy_price, opp.sell_price, amount,
                                                 commission_pct)]
                           ELSE heap
                /\ trades' = IF success
                             THEN Append(trades,
                                    TradeRecord(threshold, symbol, opp.buy_exchange,
                                                opp.sell_exchange, opp.profit_pct,
                                                trade_value_usdt))
                             ELSE trades
        /\ UNCHANGED <<inputs, pc, pos, valid, balance_managers,
                       detector_vars, collector_vars, config_vars, funding_vars, chart_vars,
                       finder_vars, trader_vars>>

StepAny == \E k \in InstanceIdx : StepInstance(k)

InterleavedNext == Launch \/ StepAny

InterleavedSpec == InterleavedInit /\ [][InterleavedNext]_vars

\* ------------------------------------------------- funding from market data
\* the records of the market data: quotes of two exchanges, of either symbol,
\* with an ask of 0 (no price), 1.0 or 2.0
QuoteRows ==
    {[exchange |-> e, symbol |-> sym, bestAsk |-> a] :
        e \in {Exchanges[1], Exchanges[2]}, sym \in SymbolSet,
        a \in {0, Lit(1), Lit(2)}}

\* full_data.tail(50000): the last SampleSize records
SampleSize == 2
TailRows(frame, n) ==
    IF Len(frame) <= n THEN frame ELSE SubSeq(frame, Len(frame) - n + 1, Len(frame))

\* full_data.group_by(["symbol", "exchange"]).first(): of every group its
\* first record, whatever it holds
RECURSIVE GroupFirst(_, _)
GroupFirst(frame, seen) ==
    IF frame = <<>> THEN <<>>
    ELSE LET key == <<Head(frame).symbol, Head(frame).exchange>>
         IN  IF key \in seen THEN GroupFirst(Tail(frame), seen)
             ELSE <<Head(frame)>> \o GroupFirst(Tail(frame), seen \cup {key})

\* setup_initial_assets: next(d for d in market_data if exchange, symbol match
\* and bestAsk > 0), its bestAsk; 0 when there is none
RECURSIVE FirstValidAsk(_, _, _)
FirstValidAsk(records, exchange, symbol) ==
    IF records = <<>> THEN 0
    ELSE IF /\ Head(records).exchange = exchange
            /\ Head(records).symbol = symbol
            /\ Head(records).bestAsk > 0
         THEN Head(records).bestAsk
         ELSE FirstValidAsk(Tail(records), exchange, symbol)

\* the records setup_initial_assets is called with: the analyzer's first
\* record of each (symbol, exchange) group, of the symbol; barbotine's sample
InitialPrices(impl, frame, symbol) ==
    IF impl = "analyzer"
    THEN SelectSeq(GroupFirst(frame, {}), LAMBDA d : d.symbol = symbol)
    ELSE TailRows(frame, SampleSize)

\* the symbol whose instances are funded
FundedSymbol == Symbols[1]

FundingInit ==
    /\ funding_impl \in {"analyzer", "barbotine"}
    /\ market_data \in UNION {[1..n -> QuoteRows] : n \in 0..MaxQuotes}
    /\ fund_pc = "loaded"
    /\ initial_prices = <<>>
    /\ template_bm = <<>>
    /\ clones = <<>>
    /\ BacktesterIdle
    /\ DetectorIdle
    /\ CollectorIdle
    /\ ConfigIdle
    /\ InterleaveIdle
    /\ ChartIdle
    /\ FinderIdle
    /\ TraderIdle

\* Backtester.run: the initial prices found
FindInitialPrices ==
    /\ fund_pc = "loaded"
    /\ initial_prices' = InitialPrices(funding_impl, market_data, FundedSymbol)
    /\ fund_pc' = "priced"
    /\ UNCHANGED <<funding_impl, market_data, template_bm, clones,
                   backtester_vars, detector_vars, collector_vars, config_vars,
                   interleave_vars, chart_vars, finder_vars, trader_vars>>

\* template_bm = BalanceManager(...); template_bm.setup_initial_assets(...)
FundTemplate ==
    /\ fund_pc = "priced"
    /\ template_bm' =
          SetupInitialAssets(InitializeWallets,
              [e \in ExchangeSet |-> FirstValidAsk(initial_prices, e, FundedSymbol)])
    /\ fund_pc' = "funded"
    /\ UNCHANGED <<funding_impl, market_data, initial_prices, clones,
                   backtester_vars, detector_vars, collector_vars, config_vars,
                   interleave_vars, chart_vars, finder_vars, trader_vars>>

\* for threshold in self.profit_thresholds: copy.deepcopy(template_bm)
CloneTemplate ==
    /\ fund_pc = "funded"
    /\ clones' = [ti \in ThresholdIdx |-> template_bm]
    /\ fund_pc' = "cloned"
    /\ UNCHANGED <<funding_impl, market_data, initial_prices, template_bm,
                   backtester_vars, detector_vars, collector_vars, config_vars,
                   interleave_vars, chart_vars, finder_vars, trader_vars>>

FundingNext == FindInitialPrices \/ FundTemplate \/ CloneTemplate

FundingSpec == FundingInit /\ [][FundingNext]_vars

\* ------------------------------------------------------ what the claims use
\* an iteration of the replay loop is being taken
Replaying == pc = "replay"

\* instance k has been replayed to the end of its list
Finished(k) == pc = "done" \/ (pc = "replay" /\ k < pos[1])

\* the wallets every instance starts from
Funded == SetupInitialAssets(InitializeWallets, asks)

RECURSIVE SelectTrades(_, _, _)
SelectTrades(seq, symbol, threshold) ==
    IF seq = <<>> THEN <<>>
    ELSE IF Head(seq).symbol = symbol /\ Head(seq).profit_threshold = threshold
         THEN <<Head(seq)>> \o SelectTrades(Tail(seq), symbol, threshold)
         ELSE SelectTrades(Tail(seq), symbol, threshold)

\* the TradeRecords of instance k, in the order they were recorded
TradesOf(k) ==
    SelectTrades(trades, Instances[k].symbol, ProfitThresholds[Instances[k].ti])

\* the opportunities of instance k's symbol with profit_pct >= its threshold
Admitted(k) ==
    {i \in 1..Len(opps[Instances[k].symbol]) :
        opps[Instances[k].symbol][i].profit_pct >= ProfitThresholds[Instances[k].ti]}

RECURSIVE SumOver(_, _)
SumOver(f, S) ==
    IF S = {} THEN 0
    ELSE LET x == CHOOSE y \in S : TRUE IN f[x] + SumOver(f, S \ {x})

TotalQuote(balances) == SumOver([e \in DOMAIN balances |-> balances[e].USDT], DOMAIN balances)
TotalBase(balances) == SumOver([e \in DOMAIN balances |-> balances[e].BASE], DOMAIN balances)

\* ------------------------------------------------------------------ claims

\* C1: after funding and after any replayed opportunities, every wallet
\* balance (USDT and base) of every instance is >= 0.
C1_NoNegativeBalance ==
    \A id \in DOMAIN heap : \A e \in DOMAIN heap[id] :
        heap[id][e].USDT >= 0 /\ heap[id][e].BASE >= 0

\* C2: within one instance the filtered opportunities are evaluated in
\* ascending timestamp order, none before an earlier one, and each is sized
\* from the balances left by every earlier trade of the instance.
C2_ChronologicalReplay ==
    [][Replaying =>
        LET k == pos[1]
            o == last'.opp
            w == Wallets(k)
            rows == opps[Instances[k].symbol]
        IN  /\ last'.k = k
            /\ evaluated' = [evaluated EXCEPT ![k] = Append(@, o)]
            /\ \A j \in 1..Len(evaluated[k]) : evaluated[k][j].timestamp <= o.timestamp
            /\ Cardinality({i \in Admitted(k) : rows[i].timestamp < o.timestamp})
                 = Cardinality({j \in 1..Len(evaluated[k]) :
                                   evaluated[k][j].timestamp < o.timestamp})
            /\ last'.max_buy_crypto = FDiv(w[o.buy_exchange].USDT, o.buy_price)
            /\ last'.max_sell_crypto = w[o.sell_exchange].BASE]_vars

\* C2's case: the detector listed a later opportunity before an earlier one,
\* both were replayed in timestamp order and both were executed
C2_Witness ==
    \E k \in InstanceIdx :
        LET rows == opps[Instances[k].symbol] IN
        /\ Len(rows) >= 2 /\ rows[1].timestamp > rows[2].timestamp
        /\ Len(evaluated[k]) >= 2
        /\ evaluated[k][1].timestamp < evaluated[k][2].timestamp
        /\ Len(TradesOf(k)) >= 2

\* C3: an iteration of one instance leaves the wallets of every other
\* (symbol, threshold) instance unchanged.
C3_InstanceIsolation ==
    [][Replaying =>
        \A k \in InstanceIdx \ {pos[1]} : Wallets(k)' = Wallets(k)]_vars

\* C3's case: a trade was executed in one instance while another threshold of
\* the same symbol, and an instance of another symbol, still hold the funded
\* wallets
C3_Witness ==
    /\ pc # "init" /\ last.k # 0 /\ last.executed
    /\ Wallets(last.k) # Funded
    /\ \E k \in InstanceIdx \ {last.k} :
          Instances[k].symbol = Instances[last.k].symbol /\ Wallets(k) = Funded
    /\ \E k \in InstanceIdx :
          Instances[k].symbol # Instances[last.k].symbol /\ Wallets(k) = Funded

\* total value at price p, in units of 1 / Scale^2 so that no product rounds
Value(balances, p) == TotalQuote(balances) * Scale + TotalBase(balances) * p

\* the commission one iteration paid, valued at price p (as Value)
FeesPaid(loc, commission, p) ==
    LET a == IF loc.executed THEN loc.trade_amount_crypto ELSE 0
        rate == FDiv(commission, Lit(100))
    IN  FMul(a, rate) * p + FMul(FMul(a, loc.opp.sell_price), rate) * Scale

\* the gross spread one iteration earned: a * sell_price - a * buy_price
SpreadEarned(loc) ==
    LET a == IF loc.executed THEN loc.trade_amount_crypto ELSE 0
    IN  (FMul(a, loc.opp.sell_price) - FMul(a, loc.opp.buy_price)) * Scale

\* C4 as stated: the total sum(quote) + sum(base) * price of an instance
\* changes by the commission paid and by nothing else.
C4_ValueOnlyLosesFees ==
    [][Replaying =>
        \A k \in {pos[1]} :
        \A p \in {last'.opp.buy_price, last'.opp.sell_price} :
            Value(Wallets(k)', p)
              = Value(Wallets(k), p) - FeesPaid(last', commission_pct, p)]_vars

\* C4 amended: the total changes by the gross spread a * (sell_price -
\* buy_price) the trade earns less the commission paid, and by nothing else.
C4_ValueChangesBySpreadLessFees ==
    [][Replaying =>
        \A k \in {pos[1]} :
        \A p \in {last'.opp.buy_price, last'.opp.sell_price} :
            Value(Wallets(k)', p)
              = Value(Wallets(k), p) + SpreadEarned(last')
                  - FeesPaid(last', commission_pct, p)]_vars

\* C4's case: a trade was executed with a commission and earned a spread
C4_Witness ==
    /\ last.k # 0 /\ last.executed /\ commission_pct > 0
    /\ SpreadEarned(last) > 0
    /\ FeesPaid(last, commission_pct, last.opp.buy_price) > 0

\* C5: the TradeRecords of an instance never outnumber the opportunities it
\* has evaluated, which never outnumber those with profit_pct >= threshold;
\* when the instance is finished each of them was evaluated exactly once.
C5_AtMostOneTradePerOpportunity ==
    \A k \in InstanceIdx :
        /\ Len(TradesOf(k)) <= Len(evaluated[k])
        /\ Len(evaluated[k]) <= Cardinality(Admitted(k))
        /\ Finished(k) => Len(evaluated[k]) = Cardinality(Admitted(k))

\* C5's case: a finished instance that skipped one opportunity and traded
\* another, while its symbol has an opportunity below the threshold
C5_Witness ==
    \E k \in InstanceIdx :
        /\ Finished(k)
        /\ Len(TradesOf(k)) >= 1
        /\ Len(TradesOf(k)) < Len(evaluated[k])
        /\ Cardinality(Admitted(k)) < Len(opps[Instances[k].symbol])

\* what a replay yields: its TradeRecords (the threshold label apart, which is
\* no result of the replay) and its final wallets
Outcome(k) ==
    [records |-> [i \in 1..Len(TradesOf(k)) |->
                    [buy_exchange |-> TradesOf(k)[i].buy_exchange,
                     sell_exchange |-> TradesOf(k)[i].sell_exchange,
                     net_profit_pct |-> TradesOf(k)[i].net_profit_pct,
                     amount_usdt |-> TradesOf(k)[i].amount_usdt,
                     profit_usdt |-> TradesOf(k)[i].profit_usdt]],
     wallets |-> Wallets(k)]

\* C6: two finished replays of the same opportunity list, from the same funded
\* wallets and with the same commission, have recorded the same TradeRecord
\* sequence and hold the same final wallets.
C6_DeterministicReplay ==
    \A k1, k2 \in InstanceIdx :
        (Finished(k1) /\ Finished(k2) /\ evaluated[k1] = evaluated[k2])
            => Outcome(k1) = Outcome(k2)

\* C6's case: two instances have replayed the same list of two or more
\* opportunities, trading some and skipping some
C6_Witness ==
    \E k1, k2 \in InstanceIdx :
        /\ k1 # k2 /\ Finished(k1) /\ Finished(k2)
        /\ evaluated[k1] = evaluated[k2]
        /\ Len(evaluated[k1]) >= 2
        /\ Len(TradesOf(k1)) >= 1
        /\ Len(TradesOf(k1)) < Len(evaluated[k1])

\* instances k1, k2 of one symbol, k2 with the higher threshold
Stricter(k1, k2) ==
    /\ Instances[k1].symbol = Instances[k2].symbol
    /\ ProfitThresholds[Instances[k1].ti] < ProfitThresholds[Instances[k2].ti]

\* C7 as stated: at the end of the run the instance with the higher threshold
\* has executed no more trades than the one with the lower threshold.
C7_TradeCountMonotone ==
    pc = "done" =>
        \A k1, k2 \in InstanceIdx :
            Stricter(k1, k2) => Len(TradesOf(k2)) <= Len(TradesOf(k1))

\* C7 amended: the instance with the higher threshold has evaluated no more
\* opportunities than the one with the lower threshold.
C7_EvaluatedCountMonotone ==
    pc = "done" =>
        \A k1, k2 \in InstanceIdx :
            Stricter(k1, k2) => Len(evaluated[k2]) <= Len(evaluated[k1])

\* C7's case: the higher threshold evaluated fewer opportunities and yet
\* executed more trades
C7_Witness ==
    /\ pc = "done"
    /\ \E k1, k2 \in InstanceIdx :
          /\ Stricter(k1, k2)
          /\ Len(evaluated[k2]) < Len(evaluated[k1])
          /\ Len(TradesOf(k2)) > Len(TradesOf(k1))

\* the scenario of the specification: A = {USDT 100, base 0}, B = {USDT 0,
\* base 1}, buy on A at 10, sell on B at 11
ScenarioWallets ==
    [e \in {"A", "B"} |->
        IF e = "A" THEN [USDT |-> Lit(100), BASE |-> 0]
        ELSE [USDT |-> 0, BASE |-> Lit(1)]]
ScenarioOpportunity == Opportunity(1, <<"A", "B", Lit(10), Lit(11)>>, 0)

\* C8: the amount of every evaluated opportunity is min(buy-exchange USDT /
\* buy_price, sell-exchange base) of the balances at that moment, and that is
\* the amount an executed trade sells; in the scenario it is 1, not 10.
C8_TradeSizing ==
    [][Replaying =>
        \A k \in {pos[1]} :
            LET o == last'.opp
                w == Wallets(k)
                amount == Min(FDiv(w[o.buy_exchange].USDT, o.buy_price),
                              w[o.sell_exchange].BASE)
            IN  /\ last'.trade_amount_crypto = amount
                /\ last'.executed =>
                      Wallets(k)'[o.sell_exchange].BASE = w[o.sell_exchange].BASE - amount
                /\ Locals(k, ScenarioOpportunity, ScenarioWallets).trade_amount_crypto
                      = Lit(1)]_vars

\* C8's case: a trade executed at the sell-side cap, below what the USDT of the
\* buy side would have bought
C8_Witness ==
    /\ last.k # 0 /\ last.executed
    /\ last.max_sell_crypto < last.max_buy_crypto
    /\ last.trade_amount_crypto = last.max_sell_crypto

\* C9: an opportunity whose amount is below the epsilon is skipped: no balance
\* changes, no TradeRecord is recorded, and the replay goes on to the next
\* opportunity.
C9_DustIsSkipped ==
    [][(Replaying /\ last'.trade_amount_crypto < Epsilon) =>
        /\ ~last'.executed
        /\ heap' = heap
        /\ trades' = trades
        /\ pc' \in {"replay", "done"}
        /\ pos' # pos
        /\ pos[2] < Len(valid) => (pc' = "replay" /\ pos' = <<pos[1], pos[2] + 1>>)]_vars

\* C9's case: an opportunity has been skipped for want of balance and the next
\* one of the same instance is up
C9_Witness ==
    /\ pc = "replay" /\ last.k = pos[1]
    /\ ~last.executed
    /\ last.trade_amount_crypto < Epsilon

\* C10: an executed trade of amount a debits a * buy_price USDT and credits
\* a - a * commission / 100 base on the buy exchange, debits a base and credits
\* a * sell_price less its commission on the sell exchange, leaves every other
\* wallet as it was and appends exactly one TradeRecord.
C10_ExecutedTradeEffect ==
    [][(Replaying /\ last'.executed) =>
        \A k \in {pos[1]} :
            LET o == last'.opp
                a == last'.trade_amount_crypto
                rate == FDiv(commission_pct, Lit(100))
                w == Wallets(k)
                id == balance_managers[Instances[k].symbol][Instances[k].ti]
                record == trades'[Len(trades')]
            IN  /\ Wallets(k)'[o.buy_exchange].USDT
                      = w[o.buy_exchange].USDT - FMul(a, o.buy_price)
                /\ Wallets(k)'[o.buy_exchange].BASE
                      = w[o.buy_exchange].BASE + (a - FMul(a, rate))
                /\ Wallets(k)'[o.sell_exchange].BASE = w[o.sell_exchange].BASE - a
                /\ Wallets(k)'[o.sell_exchange].USDT
                      = w[o.sell_exchange].USDT
                          + (FMul(a, o.sell_price) - FMul(FMul(a, o.sell_price), rate))
                /\ \A e \in ExchangeSet \ {o.buy_exchange, o.sell_exchange} :
                      Wallets(k)'[e] = w[e]
                /\ \A other \in DOMAIN heap \ {id} : heap'[other] = heap[other]
                /\ Len(trades') = Len(trades) + 1
                /\ SubSeq(trades', 1, Len(trades)) = trades
                /\ record.symbol = Instances[k].symbol
                /\ record.profit_threshold = ProfitThresholds[Instances[k].ti]
                /\ record.buy_exchange = o.buy_exchange
                /\ record.sell_exchange = o.sell_exchange]_vars

\* C10's case: a trade was executed and paid a commission on both legs
C10_Witness ==
    /\ last.k # 0 /\ last.executed
    /\ FMul(last.trade_amount_crypto, FDiv(commission_pct, Lit(100))) > 0
    /\ Len(trades) >= 1

\* the threshold of instance k
ThresholdOf(k) == ProfitThresholds[Instances[k].ti]

\* C11: every TradeRecord carries the threshold and the symbol of the instance
\* that recorded it and a net_profit_pct not below that threshold; an instance
\* evaluates no opportunity below its threshold, and its wallets change only
\* in an iteration of its own, over an opportunity at or above the threshold.
C11_RecordsRespectThreshold ==
    /\ [](\A i \in 1..Len(trades) :
             /\ trades[i].symbol \in SymbolSet
             /\ \E ti \in ThresholdIdx : trades[i].profit_threshold = ProfitThresholds[ti]
             /\ trades[i].net_profit_pct >= trades[i].profit_threshold)
    /\ [](\A k \in InstanceIdx : \A j \in 1..Len(evaluated[k]) :
             evaluated[k][j].profit_pct >= ThresholdOf(k))
    /\ [][Replaying =>
            \A k \in {pos[1]} :
                /\ last'.opp.profit_pct >= ThresholdOf(k)
                /\ trades' # trades =>
                      /\ last'.executed
                      /\ trades'[Len(trades')].profit_threshold = ThresholdOf(k)
                      /\ trades'[Len(trades')].symbol = Instances[k].symbol
                      /\ trades'[Len(trades')].net_profit_pct = last'.opp.profit_pct
                /\ \A j \in InstanceIdx : Wallets(j)' # Wallets(j) => j = k]_vars

\* C11's case: the instance of the higher threshold has recorded a trade while
\* its symbol has an opportunity below that threshold, which it left alone
C11_Witness ==
    \E k \in InstanceIdx :
        /\ Finished(k)
        /\ Instances[k].ti = Len(ProfitThresholds)
        /\ Len(TradesOf(k)) >= 1
        /\ Wallets(k) # Funded
        /\ Cardinality(Admitted(k)) < Len(opps[Instances[k].symbol])

\* ---------------------------------------------------- detector claims
\* the detector has returned
Returned == det_pc = "returned"

\* the quotes handed to the detector, and those of exchange e
Quotes == {spread_data[i] : i \in 1..Len(spread_data)}
QuotesOn(e) == {q \in Quotes : q.exchange = e}

\* the rows of a frame of opportunities that sell on L and buy on R
RowsOfDirection(frame, L, R) ==
    SelectSeq(frame, LAMBDA o : o.sell_exchange = L /\ o.buy_exchange = R)

\* C12: every emitted opportunity stamped T that sells on L and buys on R has
\* the bid of an L quote stamped T as sell_price and the bid of a most recent
\* R quote with timestamp <= T as buy_price; an L quote with no R quote at or
\* before it yields no opportunity.
C12_NoLookAhead ==
    Returned =>
        /\ \A n \in 1..Len(det_result) :
              LET o == det_result[n]
                  at_or_before == {r \in QuotesOn(o.buy_exchange) :
                                      r.timestamp <= o.timestamp}
              IN  /\ \E q \in QuotesOn(o.sell_exchange) :
                        q.timestamp = o.timestamp /\ q.bestBid = o.sell_price
                  /\ \E r \in at_or_before :
                        /\ r.bestBid = o.buy_price
                        /\ \A r2 \in at_or_before : r2.timestamp <= r.timestamp
        /\ \A q \in Quotes : \A R \in ExchangeSet :
              (\A r \in QuotesOn(R) : r.timestamp > q.timestamp) =>
                  \A n \in 1..Len(det_result) :
                      ~(/\ det_result[n].sell_exchange = q.exchange
                        /\ det_result[n].buy_exchange = R
                        /\ det_result[n].timestamp = q.timestamp)

\* C12's case: an opportunity was emitted although the buy exchange has a
\* later quote with another, valid bid
C12_Witness ==
    /\ Returned
    /\ \E n \in 1..Len(det_result) : \E r \in QuotesOn(det_result[n].buy_exchange) :
          /\ r.timestamp > det_result[n].timestamp
          /\ r.bestBid > 0
          /\ r.bestBid # det_result[n].buy_price

\* the exchanges with a quote, and the ordered pairs <<L, R>> of them
PresentExchanges == {q.exchange : q \in Quotes}
Directions == {d \in PresentExchanges \X PresentExchanges : d[1] # d[2]}

\* the left quotes of direction d whose backward-joined pair passes the filters
PassingQuotes(d) ==
    LET df_left == SortByTimestamp(FilterExchange(spread_data, d[1]), det_tie)
        df_right == SortByTimestamp(FilterExchange(spread_data, d[2]), det_tie)
        joined == JoinAsof(df_left, df_right)
    IN  {i \in 1..Len(joined) :
            /\ ValidPrices(joined[i])
            /\ OpportunityOf(joined[i], d[1], d[2], det_commission).profit_pct > 0}

RECURSIVE SumOfLengths(_, _)
SumOfLengths(frame, ds) ==
    IF ds = {} THEN 0
    ELSE LET d == CHOOSE x \in ds : TRUE
         IN  Len(RowsOfDirection(frame, d[1], d[2])) + SumOfLengths(frame, ds \ {d})

\* C13: the output consists, for every pair of exchanges present and each of
\* its two directions, of one opportunity per left quote whose backward-joined
\* pair passes the filters, and of nothing else; rows of different directions
\* with equal timestamps are all kept.
C13_DetectorComplete ==
    Returned =>
        /\ \A d \in Directions :
              LET df_left == SortByTimestamp(FilterExchange(spread_data, d[1]), det_tie)
                  df_right == SortByTimestamp(FilterExchange(spread_data, d[2]), det_tie)
                  joined == JoinAsof(df_left, df_right)
                  rows == RowsOfDirection(det_result, d[1], d[2])
              IN  /\ Len(rows) = Cardinality(PassingQuotes(d))
                  /\ \A i \in PassingQuotes(d) :
                        \E n \in 1..Len(rows) :
                            rows[n] = OpportunityOf(joined[i], d[1], d[2], det_commission)
        /\ Len(det_result) = SumOfLengths(det_result, Directions)

\* C13's case: opportunities of two different directions with the same
\* timestamp were emitted
C13_Witness ==
    /\ Returned
    /\ \E n, m \in 1..Len(det_result) :
          /\ det_result[n].timestamp = det_result[m].timestamp
          /\ <<det_result[n].sell_exchange, det_result[n].buy_exchange>>
                # <<det_result[m].sell_exchange, det_result[m].buy_exchange>>
          /\ {det_result[n].sell_exchange, det_result[n].buy_exchange}
                # {det_result[m].sell_exchange, det_result[m].buy_exchange}

\* every row the detector holds: found so far and returned
DetectedRows ==
    {det_result[n] : n \in 1..Len(det_result)}
    \cup UNION {{all_opportunities[f][n] : n \in 1..Len(all_opportunities[f])} :
                   f \in 1..Len(all_opportunities)}

\* C14: every opportunity of the detector buys and sells on different
\* exchanges at positive prices, sells above the buy price, and has
\* profit_pct = (sell_price - buy_price) / buy_price * 100 - commission_pct,
\* the commission taken off once, and profit_pct > 0.
C14_OpportunityWellFormed ==
    \A o \in DetectedRows :
        /\ o.buy_exchange # o.sell_exchange
        /\ o.buy_price > 0 /\ o.sell_price > 0
        /\ o.sell_price > o.buy_price
        /\ o.profit_pct
             = FMul(FDiv(o.sell_price - o.buy_price, o.buy_price), Lit(100)) - det_commission
        /\ o.profit_pct > 0

\* C14's case: with a commission, an opportunity was emitted from quotes of
\* which one has no price
C14_Witness ==
    /\ Returned
    /\ det_commission > 0
    /\ Len(det_result) >= 1
    /\ \E q \in Quotes : q.bestBid = 0

\* x is about the value target (within 0.05)
About(x, target) ==
    LET tolerance == FDiv(Lit(1), Lit(20))
    IN  x - target <= tolerance /\ target - x <= tolerance

\* C15: for the quotes A(0, 100), B(0, 99), A(1, 100), B(1, 102) and
\* commission 0.2 the detector emits exactly two opportunities: at t=1 buy A
\* at 100 / sell B at 102 with profit_pct about 1.8, and at t=0 buy B at 99 /
\* sell A at 100 with profit_pct about 0.8.
C15_ScenarioBothDirections ==
    (Returned /\ spread_data = ScenarioQuotes /\ det_commission = ScenarioCommission) =>
        /\ Len(det_result) = 2
        /\ \E n \in 1..2 :
              /\ det_result[n].timestamp = 1
              /\ det_result[n].buy_exchange = "A" /\ det_result[n].buy_price = Lit(100)
              /\ det_result[n].sell_exchange = "B" /\ det_result[n].sell_price = Lit(102)
              /\ About(det_result[n].profit_pct, FDiv(Lit(9), Lit(5)))
        /\ \E n \in 1..2 :
              /\ det_result[n].timestamp = 0
              /\ det_result[n].buy_exchange = "B" /\ det_result[n].buy_price = Lit(99)
              /\ det_result[n].sell_exchange = "A" /\ det_result[n].sell_price = Lit(100)
              /\ About(det_result[n].profit_pct, FDiv(Lit(4), Lit(5)))

\* C15's case: the detector has returned from the scenario's quotes
C15_Witness ==
    /\ Returned
    /\ spread_data = ScenarioQuotes /\ det_commission = ScenarioCommission
    /\ Len(det_result) = 2

\* frames with no quote, or with quotes of one exchange only
SparseFrames ==
    {SetToSeq(q) : q \in SubsetsUpTo({r \in QuoteSet : r.exchange = Exchanges[1]}, 2)}

\* C16: without data (no quote, or quotes of fewer than two exchanges) the
\* detector returns an empty frame; an instance whose symbol has no opportunity,
\* or none at or above its threshold, evaluates nothing, records no trade and
\* keeps its funded wallets.
C16_DataAbsenceIsSilent ==
    /\ \A frame \in SparseFrames : \A order \in {"kept", "reversed"} :
          FindMakerTakerOpportunities(frame, commission_pct, tieBreak, order) = <<>>
    /\ pc # "init" =>
          \A k \in InstanceIdx :
              (opps[Instances[k].symbol] = <<>> \/ Admitted(k) = {}) =>
                  /\ evaluated[k] = <<>>
                  /\ TradesOf(k) = <<>>
                  /\ Wallets(k) = Funded

\* C16's case: the run is over, one symbol had no opportunity at all, an
\* instance of another had none at its threshold, and a third instance traded
C16_Witness ==
    /\ pc = "done"
    /\ \E s \in SymbolSet : opps[s] = <<>>
    /\ \E k \in InstanceIdx : opps[Instances[k].symbol] # <<>> /\ Admitted(k) = {}
    /\ \E k \in InstanceIdx : TradesOf(k) # <<>>

\* --------------------------------------------------- collector claims
\* get_results has returned a report on at least one trade
Reported == results.called /\ ~results.value.empty

\* the stored rows of one (symbol, threshold) instance, in stored order
BucketRows(symbol, threshold) ==
    FilterThreshold(FilterSymbol(trades, symbol), threshold)

\* the buckets of the report returned
ReportedBuckets ==
    {<<symbol, threshold>> \in SymbolSet \X ThresholdsOf(trades) :
        /\ symbol \in DOMAIN results.value.by_symbol
        /\ threshold \in DOMAIN results.value.by_symbol[symbol].by_threshold}

BucketOf(b) == results.value.by_symbol[b[1]].by_threshold[b[2]]

\* the two exchanges of a trade, whichever the direction
Ends(row) == {row.buy_exchange, row.sell_exchange}

\* a bucket counts each of its trades under the sorted pair of its exchanges
PairsNormalized(b) ==
    LET rows == BucketRows(b[1], b[2])
        counts == BucketOf(b).pair_counts
    IN  /\ \A i \in 1..Len(rows) :
              \E key \in DOMAIN counts :
                  /\ {key[1], key[2]} = Ends(rows[i])
                  /\ ExchangeRank(key[1]) <= ExchangeRank(key[2])
                  /\ counts[key] =
                        Cardinality({j \in 1..Len(rows) : Ends(rows[j]) = Ends(rows[i])})
        /\ SumOver(counts, DOMAIN counts) = BucketOf(b).trades

\* C17: in every report get_results returns, a trade bought on A and sold on
\* B and a trade bought on B and sold on A of the same symbol and threshold
\* are counted under one pair bucket, keyed by the sorted pair of the exchange
\* names, and the pair counts of every bucket add up to its number of trades.
C17_PairsNormalized ==
    Reported => \A b \in ReportedBuckets : PairsNormalized(b)

\* the same, of the analyzer's collector alone
AnalyzerPairsNormalized ==
    (Reported /\ implementation = "analyzer") =>
        \A b \in ReportedBuckets : PairsNormalized(b)

\* a report of the analyzer's collector on a bucket holding both directions
AnalyzerBothDirections ==
    /\ Reported /\ implementation = "analyzer"
    /\ \E b \in ReportedBuckets :
          LET rows == BucketRows(b[1], b[2])
          IN  \E i, j \in 1..Len(rows) :
                 /\ rows[i].buy_exchange = rows[j].sell_exchange
                 /\ rows[i].sell_exchange = rows[j].buy_exchange

\* the orders a frame of n rows can be recorded in
RecordOrders(n) ==
    {p \in [1..n -> 1..n] : \A i, j \in 1..n : i # j => p[i] # p[j]}

Permuted(frame, p) == [i \in 1..Len(frame) |-> frame[p[i]]]

\* a report without its sums of profit: the counts only
CountsOf(report) ==
    IF report.empty THEN report
    ELSE [total_trades |-> report.total_trades,
          by_symbol |->
            [symbol \in DOMAIN report.by_symbol |->
               [total_trades |-> report.by_symbol[symbol].total_trades,
                by_threshold |->
                  [threshold \in DOMAIN report.by_symbol[symbol].by_threshold |->
                     [trades |-> report.by_symbol[symbol].by_threshold[threshold].trades,
                      pair_counts |->
                        report.by_symbol[symbol].by_threshold[threshold].pair_counts]]]]]

\* C18: the report get_results returns is the one it returns for the same
\* trades recorded in any other order: the same total_trades, total_profit,
\* per-symbol totals, per-(symbol, threshold) trades and profit and pair counts.
C18_OrderIndependent ==
    results.called =>
        \A p \in RecordOrders(Len(trades)) :
            GetResultsOf(implementation, Permuted(trades, p)) = results.value

\* the counts of the report do not depend on the order
OrderIndependentCounts ==
    results.called =>
        \A p \in RecordOrders(Len(trades)) :
            CountsOf(GetResultsOf(implementation, Permuted(trades, p)))
                = CountsOf(results.value)

\* the report's per-symbol numbers of trades, and its buckets' numbers of
\* trades and profits
SymbolTrades ==
    [symbol \in DOMAIN results.value.by_symbol |->
        results.value.by_symbol[symbol].total_trades]
BucketTrades == [b \in ReportedBuckets |-> BucketOf(b).trades]
BucketProfits == [b \in ReportedBuckets |-> BucketOf(b).profit]

\* the real-number sum of the profit_usdt of the stored trades
StoredProfit ==
    SumOver([i \in 1..Len(trades) |-> trades[i].profit_usdt], 1..Len(trades))

Abs(x) == IF x < 0 THEN -x ELSE x

\* record_trade only appends: a step that changes the stored trades adds one
\* row after the rows stored before, and get_results leaves them as they are
OnlyAppends ==
    /\ trades' # trades =>
          /\ Len(trades') = Len(trades) + 1
          /\ SubSeq(trades', 1, Len(trades)) = trades
    /\ (results'.called /\ ~results.called) => trades' = trades

\* the counts of a report: the n trades stored, over the symbols and over the
\* buckets; and an empty report exactly when nothing is stored
CountsAddUp ==
    results.called =>
        /\ results.value.empty <=> trades = <<>>
        /\ Reported =>
              /\ results.value.total_trades = Len(trades)
              /\ SumOver(SymbolTrades, DOMAIN SymbolTrades) = Len(trades)
              /\ SumOver(BucketTrades, ReportedBuckets) = Len(trades)

\* total_profit is exactly the sum of the bucket profits
ProfitIsSumOfBuckets ==
    Reported => results.value.total_profit = SumOver(BucketProfits, ReportedBuckets)

\* total_profit is the float sum of the stored profits in stored order, each
\* bucket's profit the float sum of its own rows, and the two differ by the
\* rounding of the additions at most
ProfitIsSumUpToRounding ==
    Reported =>
        /\ results.value.total_profit = SumProfit(trades)
        /\ \A b \in ReportedBuckets :
              BucketOf(b).profit = SumProfit(BucketRows(b[1], b[2]))
        /\ MantissaLimit
              * Abs(results.value.total_profit - SumOver(BucketProfits, ReportedBuckets))
              <= 2 * Len(trades) * StoredProfit

\* C19 as stated: the collector is purely additive (every record_trade is
\* stored, stored trades are never removed or altered), after n calls
\* get_results reports total_trades = n, equal to the sum of the per-symbol
\* total_trades and to the sum of the buckets' trades, total_profit equal to
\* the sum of the bucket profits, and an empty result when nothing is recorded.
C19_PurelyAdditive ==
    [](CountsAddUp /\ ProfitIsSumOfBuckets) /\ [][OnlyAppends]_vars

\* C19 amended: the same, with total_profit the float sum of the stored
\* profits, equal to the sum of the bucket profits up to the rounding of the
\* additions only.
C19_AdditiveUpToRounding ==
    [](CountsAddUp /\ ProfitIsSumUpToRounding) /\ [][OnlyAppends]_vars

\* a report on MaxTrades trades of two symbols whose total_profit is not the
\* sum of its bucket profits
C19_Witness ==
    /\ Reported
    /\ Len(trades) = MaxTrades
    /\ Cardinality(DOMAIN results.value.by_symbol) = 2
    /\ results.value.total_profit # SumOver(BucketProfits, ReportedBuckets)

\* ------------------------------------------------ configuration claims
\* an empty exchange list or a negative commission_pct
Malformed == sim_exchanges = <<>> \/ sim_commission < 0

\* C20: a simulation whose configuration has an empty exchange list or a
\* negative commission_pct is rejected at construction: it is never
\* constructed, no wallet of it is ever funded and no opportunity replayed.
C20_MalformedRejected ==
    Malformed => (sim_pc \notin {"constructed", "funded"} /\ sim_replayed = 0)

\* a negative commission is paid out to the wallets: a trade of such a
\* simulation leaves more base currency than it moved
NegativeCommissionTraded ==
    /\ sim_commission < 0
    /\ sim_replayed > 0
    /\ SumOver([e \in DOMAIN sim_balances |-> sim_balances[e].BASE], DOMAIN sim_balances)
          > SumOver([e \in DOMAIN sim_balances |->
                        SetupInitialAssets(InitializeWalletsOf(sim_exchanges), sim_asks)[e].BASE],
                    DOMAIN sim_balances)

\* ------------------------------------------------ interleaving claims
\* the sequential replay of a list from given wallets: the final wallets and
\* the TradeRecords, in order
RECURSIVE ReplayFrom(_, _, _, _)
ReplayFrom(k, list, balances, records) ==
    IF list = <<>> THEN [wallets |-> balances, records |-> records]
    ELSE LET opp == Head(list)
             amount == Locals(k, opp, balances).trade_amount_crypto
         IN  IF IsDust(amount) \/ ~EndsWithUSDT(Instances[k].symbol)
             THEN ReplayFrom(k, Tail(list), balances, records)
             ELSE ReplayFrom(k, Tail(list),
                    SimulateTrade(balances, opp.buy_exchange, opp.sell_exchange,
                                  opp.buy_price, opp.sell_price, amount, commission_pct),
                    Append(records,
                           TradeRecord(ProfitThresholds[Instances[k].ti],
                                       Instances[k].symbol, opp.buy_exchange,
                                       opp.sell_exchange, opp.profit_pct,
                                       FMul(amount, opp.buy_price))))

\* instance k replayed on its own up to its first n opportunities
SequentialRun(k, n) == ReplayFrom(k, SubSeq(Valid(k), 1, n), Funded, <<>>)

\* the trades of the sequential run, instance after instance
RECURSIVE SequentialTrades(_)
SequentialTrades(k) ==
    IF k = 0 THEN <<>>
    ELSE SequentialTrades(k - 1) \o SequentialRun(k, Len(Valid(k))).records

\* every instance has consumed its list
AllConsumed ==
    pc = "interleaved" /\ \A k \in InstanceIdx : cursor[k] = Len(Valid(k))

\* whatever the interleaving, an instance stands where its own sequential
\* replay stands after as many opportunities
SameAsSequential ==
    pc = "interleaved" =>
        \A k \in InstanceIdx :
            /\ Wallets(k) = SequentialRun(k, cursor[k]).wallets
            /\ TradesOf(k) = SequentialRun(k, cursor[k]).records

\* the profit of every (symbol, threshold) bucket of a report
BucketProfitsOf(report) ==
    IF report.empty THEN report
    ELSE [symbol \in DOMAIN report.by_symbol |->
            [threshold \in DOMAIN report.by_symbol[symbol].by_threshold |->
                report.by_symbol[symbol].by_threshold[threshold].profit]]

PhaseRank(k) ==
    IF pc = "init" THEN 0
    ELSE IF Finished(k) THEN 3
    ELSE IF pos[1] = k THEN 2
    ELSE 1

\* C22: an instance goes Uninitialized -> Funded -> Replaying -> Finalized and
\* never back; an opportunity is evaluated against it only while it is
\* Replaying, after its wallets were funded; it is funded once, by the step
\* that takes it out of Uninitialized; and once its list is consumed its
\* wallets are never modified again.
C22_InstanceLifecycle ==
    [][\A k \in InstanceIdx :
        /\ PhaseRank(k)' >= PhaseRank(k)
        /\ evaluated'[k] # evaluated[k] =>
              (PhaseRank(k) = 2 /\ heap # <<>>)
        /\ PhaseRank(k) = 0 =>
              (PhaseRank(k)' >= 1 /\ Wallets(k)' = Funded /\ evaluated'[k] = <<>>)
        /\ PhaseRank(k) >= 1 =>
              /\ balance_managers' = balance_managers
              /\ (Wallets(k)' # Wallets(k)) => (PhaseRank(k) = 2 /\ last'.executed)
        /\ PhaseRank(k) = 3 => Wallets(k)' = Wallets(k)]_vars

\* C22's case: an instance is Finalized with trades of its own while a later
\* instance, Replaying, has just executed a trade
C22_Witness ==
    \E k1, k2 \in InstanceIdx :
        /\ PhaseRank(k1) = 3 /\ TradesOf(k1) # <<>>
        /\ PhaseRank(k2) = 2 /\ last.k = k2 /\ last.executed

\* ------------------------------------------------------ funding claims
\* the first ask > 0 the market data holds for an exchange and the symbol
FirstAskObserved(e) == FirstValidAsk(market_data, e, FundedSymbol)

\* the wallet the claim gives an exchange
ExpectedWallet(e) ==
    IF FirstAskObserved(e) > 0
    THEN [USDT |-> InitialBalance - FMul(InitialBalance, SwapRatio),
          BASE |-> FDiv(FMul(InitialBalance, SwapRatio), FirstAskObserved(e))]
    ELSE [USDT |-> InitialBalance, BASE |-> 0]

\* C23: after setup_initial_assets every exchange with a quote of the symbol
\* with ask > 0 holds U*(1-r) USDT and U*r/ask base, ask being the first valid
\* ask observed for that exchange; every other exchange holds U USDT and no
\* base; and all threshold instances of the symbol start from the same wallets.
C23_FundedAtFirstValidAsk ==
    /\ fund_pc \in {"funded", "cloned"} =>
          \A e \in ExchangeSet : template_bm[e] = ExpectedWallet(e)
    /\ fund_pc = "cloned" =>
          \A ti \in ThresholdIdx :
              \A e \in ExchangeSet : clones[ti][e] = ExpectedWallet(e)

\* the same, when the first record of every (symbol, exchange) group has a
\* valid ask and the data is no longer than the sample
FundedWhenFirstRecordValid ==
    (/\ fund_pc = "cloned"
     /\ Len(market_data) <= SampleSize
     /\ \A i \in 1..Len(market_data) : market_data[i].bestAsk > 0) =>
        \A ti \in ThresholdIdx :
            \A e \in ExchangeSet : clones[ti][e] = ExpectedWallet(e)

\* the instances of the symbol are copies of one template
ClonesIdentical ==
    fund_pc = "cloned" => \A ti \in ThresholdIdx : clones[ti] = template_bm

\* the analyzer's backtester left an exchange unfunded whose later record has
\* a valid ask
AnalyzerMissedValidAsk ==
    /\ fund_pc = "cloned" /\ funding_impl = "analyzer"
    /\ \E e \in ExchangeSet :
          FirstAskObserved(e) > 0 /\ template_bm[e].BASE = 0

\* ---------------------------------------------------------------------------
\* The chart server: the real-time join of two rolling windows
\* (charts/server.py).  Timestamps are whole seconds; the band columns of a
\* chart, which are derived from its spread column, are left out.
\* ---------------------------------------------------------------------------

\* tolerance="2s" of the as-of join
Tolerance == 2

\* what a null list element (None) is written as
NullValue == -999999

\* what _join_realtime_windows returns instead of a chart
NoChart == [none |-> TRUE]

ChartSymbol == Symbols[1]

ChartTimes == {0, 1, 4}

\* the quotes an exchange's window may hold: SpreadData(timestamp, best_bid)
ChartQuotes(exchange) ==
    IF exchange = "A"
    THEN {[timestamp |-> t, best_bid |-> Lit(5)] : t \in ChartTimes}
    ELSE {[timestamp |-> t, best_bid |-> b] : t \in ChartTimes, b \in {0, Lit(4)}}

\* RollingWindowData(exchange, symbol, spreads), or no window under the key
WindowChoices(exchange) ==
    {[present |-> FALSE, exchange |-> exchange, symbol |-> ChartSymbol, spreads |-> <<>>]}
    \cup {[present |-> TRUE, exchange |-> exchange, symbol |-> ChartSymbol,
           spreads |-> SetToSeq(S)] : S \in SubsetsUpTo(ChartQuotes(exchange), MaxQuotes)}

\* the windows dict: only the keys that have a window
WindowsOf(choices) ==
    [key \in {<<w.exchange, w.symbol>> : w \in {c \in choices : c.present}} |->
        LET w == CHOOSE c \in choices : c.present /\ c.exchange = key[1]
        IN  [exchange |-> w.exchange, symbol |-> w.symbol, spreads |-> w.spreads]]

ChartOpportunity(symbol, exchange1, exchange2) ==
    [symbol |-> symbol, exchange1 |-> exchange1, exchange2 |-> exchange2]

\* the opportunity lists served
OpportunityLists ==
    {<<ChartOpportunity(ChartSymbol, "A", "B")>>,
     <<ChartOpportunity(ChartSymbol, "A", "B"), ChartOpportunity(ChartSymbol, "B", "A")>>,
     <<ChartOpportunity(ChartSymbol, "A", "C"), ChartOpportunity(Symbols[2], "A", "B"),
       ChartOpportunity(ChartSymbol, "A", "B")>>}

\* the join with no tolerance
JoinAsofAnyAge(df_a, df_b) ==
    [i \in 1..Len(df_a) |->
        LET near == {j \in 1..Len(df_b) : df_b[j].timestamp <= df_a[i].timestamp}
        IN  IF near = {}
            THEN [timestamp |-> df_a[i].timestamp, bid_a |-> df_a[i].best_bid,
                  matched |-> FALSE, bid_b |-> 0]
            ELSE [timestamp |-> df_a[i].timestamp, bid_a |-> df_a[i].best_bid,
                  matched |-> TRUE,
                  bid_b |-> df_b[CHOOSE j \in near : \A h \in near : j >= h].best_bid]]

\* df_a.join_asof(df_b, on="timestamp", strategy="backward", tolerance="2s"):
\* to every left row the last right row with timestamp <= its own and no more
\* than the tolerance before it, or a null
JoinAsofTolerance(df_a, df_b) ==
    [i \in 1..Len(df_a) |->
        LET near == {j \in 1..Len(df_b) :
                        /\ df_b[j].timestamp <= df_a[i].timestamp
                        /\ df_a[i].timestamp - df_b[j].timestamp <= Tolerance}
        IN  IF near = {}
            THEN [timestamp |-> df_a[i].timestamp, bid_a |-> df_a[i].best_bid,
                  matched |-> FALSE, bid_b |-> 0]
            ELSE [timestamp |-> df_a[i].timestamp, bid_a |-> df_a[i].best_bid,
                  matched |-> TRUE,
                  bid_b |-> df_b[CHOOSE j \in near : \A h \in near : j >= h].best_bid]]

\* ((bid_a / bid_b) - 1) * 100; a division by zero gives an infinity or a NaN,
\* which the clean-up turns into None
SpreadValue(bid_a, bid_b) ==
    IF bid_b = 0 THEN NullValue ELSE FMul(FDiv(bid_a, bid_b) - Lit(1), Lit(100))

\* _join_realtime_windows
JoinRealtimeWindows(window_a, window_b, tie) ==
    IF window_a.spreads = <<>> \/ window_b.spreads = <<>> THEN NoChart
    ELSE LET df_a      == SortByTimestamp(window_a.spreads, tie)
             df_b      == SortByTimestamp(window_b.spreads, tie)
             merged_df == JoinAsofTolerance(df_a, df_b)
             result_df == SelectSeq(merged_df, LAMBDA row : row.matched)
         IN  IF Len(merged_df) = 0 \/ Len(result_df) = 0 THEN NoChart
             ELSE [none       |-> FALSE,
                   symbol     |-> window_a.symbol,
                   exchange1  |-> window_a.exchange,
                   exchange2  |-> window_b.exchange,
                   timestamps |-> [i \in 1..Len(result_df) |-> result_df[i].timestamp],
                   spreads    |-> [i \in 1..Len(result_df) |->
                                      SpreadValue(result_df[i].bid_a, result_df[i].bid_b)]]

ChartInit ==
    /\ \E window_a \in WindowChoices("A"), window_b \in WindowChoices("B") :
           windows = WindowsOf({window_a, window_b})
    /\ opportunities \in OpportunityLists
    /\ chart_tie \in {"kept", "reversed"}
    /\ chart_pc = "serving"
    /\ opp_index = 0
    /\ chart_data_list = <<>>
    /\ BacktesterIdle
    /\ DetectorIdle
    /\ CollectorIdle
    /\ ConfigIdle
    /\ InterleaveIdle
    /\ FundingIdle
    /\ FinderIdle
    /\ TraderIdle

\* the opportunity the loop of _get_realtime_chart_data is at
CurrentOpp == opportunities[opp_index + 1]

KeyA(opp) == <<opp.exchange1, opp.symbol>>
KeyB(opp) == <<opp.exchange2, opp.symbol>>

\* _get_realtime_chart_data, one pass of the loop: a window is missing
ContinueOpportunity ==
    /\ chart_pc = "serving" /\ opp_index < Len(opportunities)
    /\ (KeyA(CurrentOpp) \notin DOMAIN windows \/ KeyB(CurrentOpp) \notin DOMAIN windows)
    /\ opp_index' = opp_index + 1
    /\ UNCHANGED <<windows, opportunities, chart_tie, chart_pc, chart_data_list>>
    /\ UNCHANGED <<backtester_vars, detector_vars, collector_vars, config_vars,
                   interleave_vars, funding_vars, finder_vars, trader_vars>>

\* _get_realtime_chart_data, one pass of the loop: the two windows joined
JoinOpportunity ==
    /\ chart_pc = "serving" /\ opp_index < Len(opportunities)
    /\ KeyA(CurrentOpp) \in DOMAIN windows /\ KeyB(CurrentOpp) \in DOMAIN windows
    /\ LET chart_data == JoinRealtimeWindows(windows[KeyA(CurrentOpp)],
                                             windows[KeyB(CurrentOpp)], chart_tie)
       IN  chart_data_list' = IF chart_data.none THEN chart_data_list
                              ELSE Append(chart_data_list, chart_data)
    /\ opp_index' = opp_index + 1
    /\ UNCHANGED <<windows, opportunities, chart_tie, chart_pc>>
    /\ UNCHANGED <<backtester_vars, detector_vars, collector_vars, config_vars,
                   interleave_vars, funding_vars, finder_vars, trader_vars>>

\* _get_realtime_chart_data: return chart_data_list
ReturnCharts ==
    /\ chart_pc = "serving" /\ opp_index = Len(opportunities)
    /\ chart_pc' = "returned"
    /\ UNCHANGED <<windows, opportunities, chart_tie, opp_index, chart_data_list>>
    /\ UNCHANGED <<backtester_vars, detector_vars, collector_vars, config_vars,
                   interleave_vars, funding_vars, finder_vars, trader_vars>>

ChartNext == ContinueOpportunity \/ JoinOpportunity \/ ReturnCharts

ChartSpec == ChartInit /\ [][ChartNext]_vars

\* ---------------------------------------------------------------------------
\* Claims about the real-time charts
\* ---------------------------------------------------------------------------

\* the charts returned for one opportunity
ChartsFor(opp) ==
    {i \in 1..Len(chart_data_list) :
        /\ chart_data_list[i].symbol = opp.symbol
        /\ chart_data_list[i].exchange1 = opp.exchange1
        /\ chart_data_list[i].exchange2 = opp.exchange2}

SpreadsHeld(key) == IF key \in DOMAIN windows THEN windows[key].spreads ELSE <<>>

QuotesHeld(key) == {SpreadsHeld(key)[i] : i \in 1..Len(SpreadsHeld(key))}

BothHoldSpreads(opp) == SpreadsHeld(KeyA(opp)) # <<>> /\ SpreadsHeld(KeyB(opp)) # <<>>

\* b is a most recent exchange2 quote at or before a, no more than 2 s before
MostRecentWithin(a, b, opp) ==
    /\ b \in QuotesHeld(KeyB(opp))
    /\ b.timestamp <= a.timestamp /\ a.timestamp - b.timestamp <= Tolerance
    /\ \A c \in QuotesHeld(KeyB(opp)) : c.timestamp <= a.timestamp => c.timestamp <= b.timestamp

\* the exchange1 quotes that have such an exchange2 quote
Aligned(opp) ==
    {i \in 1..Len(SpreadsHeld(KeyA(opp))) :
        \E b \in QuotesHeld(KeyB(opp)) : MostRecentWithin(SpreadsHeld(KeyA(opp))[i], b, opp)}

\* every value of the chart is (bid_a / bid_b - 1) * 100 of an exchange1 quote
\* at the value's timestamp and a most recent exchange2 quote within 2 s of it
\* (null where the exchange2 bid is zero)
SpreadsFromQuotes(chart, opp) ==
    /\ Len(chart.timestamps) = Len(chart.spreads)
    /\ \A i \in 1..Len(chart.spreads) :
          \E a \in QuotesHeld(KeyA(opp)), b \in QuotesHeld(KeyB(opp)) :
              /\ a.timestamp = chart.timestamps[i]
              /\ MostRecentWithin(a, b, opp)
              /\ chart.spreads[i] = SpreadValue(a.best_bid, b.best_bid)

\* C24 as stated: after the request is served, every configured opportunity
\* whose two windows both hold spreads has exactly one chart, labelled with its
\* exchanges and made of such spread values, and an opportunity missing a
\* window has none.
C24_OneChartPerOpportunity ==
    chart_pc = "returned" =>
        \A n \in 1..Len(opportunities) :
            LET opp == opportunities[n]
            IN  IF BothHoldSpreads(opp)
                THEN /\ Cardinality(ChartsFor(opp)) = 1
                     /\ \A i \in ChartsFor(opp) : SpreadsFromQuotes(chart_data_list[i], opp)
                ELSE ChartsFor(opp) = {}

\* C24 as the code has it: the chart is produced when, besides, at least one
\* exchange1 quote has an exchange2 quote at or before it within 2 s; it then
\* holds one value per such exchange1 quote; otherwise there is no chart.
C24_OneChartWhenAligned ==
    chart_pc = "returned" =>
        /\ \A n \in 1..Len(opportunities) :
              LET opp == opportunities[n]
              IN  IF BothHoldSpreads(opp) /\ Aligned(opp) # {}
                  THEN /\ Cardinality(ChartsFor(opp)) = 1
                       /\ \A i \in ChartsFor(opp) :
                             /\ SpreadsFromQuotes(chart_data_list[i], opp)
                             /\ Len(chart_data_list[i].spreads) = Cardinality(Aligned(opp))
                  ELSE ChartsFor(opp) = {}
        /\ \A i \in 1..Len(chart_data_list) :
              \E n \in 1..Len(opportunities) : i \in ChartsFor(opportunities[n])

\* a served request with a chart of two values whose opportunity also has an
\* exchange1 quote left out, next to an opportunity without a window
C24_Witness ==
    /\ chart_pc = "returned"
    /\ \E n \in 1..Len(opportunities) :
          /\ KeyB(opportunities[n]) \notin DOMAIN windows
          /\ ChartsFor(opportunities[n]) = {}
    /\ \E n \in 1..Len(opportunities) :
          LET opp == opportunities[n]
          IN  /\ Cardinality(Aligned(opp)) = 2
              /\ Len(SpreadsHeld(KeyA(opp))) = 3
              /\ \E i \in ChartsFor(opp) : Lit(25) \in
                    {chart_data_list[i].spreads[j] : j \in 1..Len(chart_data_list[i].spreads)}

\* both windows hold spreads and no chart is produced
BothWindowsNoChart ==
    /\ chart_pc = "returned"
    /\ \E n \in 1..Len(opportunities) :
          BothHoldSpreads(opportunities[n]) /\ ChartsFor(opportunities[n]) = {}

\* ---------------------------------------------------------------------------
\* Claims about the ledger of an instance
\* ---------------------------------------------------------------------------

\* the base-asset commission of one iteration: amount * (commission_pct / 100)
BaseFee(loc, commission) ==
    IF loc.executed THEN FMul(loc.trade_amount_crypto, FDiv(commission, Lit(100))) ELSE 0

\* C25: the base asset an instance holds over all its exchanges never
\* increases during replay: an executed trade of amount a lowers it by
\* a * commission_pct / 100, a skipped opportunity leaves it as it is.
C25_BaseOnlyPaidAsFee ==
    [][Replaying =>
        \A k \in {pos[1]} :
            /\ TotalBase(Wallets(k)') = TotalBase(Wallets(k)) - BaseFee(last', commission_pct)
            /\ TotalBase(Wallets(k)') <= TotalBase(Wallets(k))
            /\ ~last'.executed => Wallets(k)' = Wallets(k)]_vars

\* C25's case: an instance skipped an opportunity and executed a trade that
\* paid a commission in the base asset
C25_Witness ==
    /\ pc # "init" /\ last.k # 0 /\ last.executed
    /\ BaseFee(last, commission_pct) > 0
    /\ TotalBase(Wallets(last.k)) < TotalBase(Funded)
    /\ Len(evaluated[last.k]) > Len(TradesOf(last.k))

\* the profit reported for instance k: the sum of profit_usdt of its records
ReportedProfit(k) ==
    SumOver([i \in 1..Len(TradesOf(k)) |-> TradesOf(k)[i].profit_usdt],
            1..Len(TradesOf(k)))

\* the USDT instance k has gained over all its exchanges since its funding
LedgerGain(k) == TotalQuote(Wallets(k)) - TotalQuote(Funded)

\* C26: for every finished instance the sum of profit_usdt over its
\* TradeRecords equals the increase of its total USDT balance since funding.
C26_ProfitMatchesLedger ==
    \A k \in InstanceIdx : Finished(k) => ReportedProfit(k) = LedgerGain(k)

\* what the roundings of the records of instance k can account for: half a
\* grid step of the spread ratio on each amount, and the last digits
RoundingSlack(k) ==
    SumOver([i \in 1..Len(TradesOf(k)) |-> TradesOf(k)[i].amount_usdt \div Scale + 2],
            1..Len(TradesOf(k)))

\* a finished instance whose reported profit is above its ledger gain by more
\* than the roundings can account for
ProfitOverstated ==
    \E k \in InstanceIdx :
        Finished(k) /\ ReportedProfit(k) - LedgerGain(k) > RoundingSlack(k)

\* without commission the two differ by the roundings only
ProfitMatchesLedgerWithoutCommission ==
    \A k \in InstanceIdx :
        (Finished(k) /\ commission_pct = 0) =>
            Abs(ReportedProfit(k) - LedgerGain(k)) <= RoundingSlack(k)


\* ---------------------------------------------------------------------------
\* Claims about opportunities of equal timestamp
\* ---------------------------------------------------------------------------

\* the list of instance k as the sort leaves it under one order of the ties
ValidUnder(k, tie) ==
    ValidOpportunities(opps[Instances[k].symbol], ProfitThresholds[Instances[k].ti], tie)

\* the records of a replay as a set
RecordSet(records) == {records[i] : i \in 1..Len(records)}

\* C27: whichever order the opportunities of equal timestamp of an instance
\* are processed in, the replay yields the same set of TradeRecords and the
\* same final wallets.
C27_TieOrderIrrelevant ==
    \A k \in InstanceIdx :
        Finished(k) =>
            \A tie \in {"kept", "reversed"} :
                LET other == ReplayFrom(k, ValidUnder(k, tie), Funded, <<>>)
                IN  /\ other.wallets = Wallets(k)
                    /\ RecordSet(other.records) = RecordSet(TradesOf(k))

\* the replay of a finished instance is the sequential replay of its list in
\* the order the sort gave it
ReplayFollowsSortOrder ==
    \A k \in InstanceIdx :
        Finished(k) =>
            LET same == ReplayFrom(k, ValidUnder(k, tieBreak), Funded, <<>>)
            IN  same.wallets = Wallets(k) /\ same.records = TradesOf(k)

\* two opportunities of one timestamp sell from the same wallet: the one
\* processed first is traded, the other finds the wallet empty
TieDecidesTheTrade ==
    \E k \in InstanceIdx :
        /\ Finished(k)
        /\ Len(evaluated[k]) = 2 /\ Len(TradesOf(k)) = 1
        /\ evaluated[k][1].timestamp = evaluated[k][2].timestamp
        /\ RecordSet(ReplayFrom(k, Reverse(evaluated[k]), Funded, <<>>).records)
             # RecordSet(TradesOf(k))


\* ---------------------------------------------------------------------------
\* Claims about opportunities that cannot be booked
\* ---------------------------------------------------------------------------

\* the opportunity names an exchange without a wallet, or the symbol of the
\* BalanceManager does not end in USDT
Unbookable(opp, balances, symbol) ==
    \/ opp.buy_exchange \notin DOMAIN balances
    \/ opp.sell_exchange \notin DOMAIN balances
    \/ ~EndsWithUSDT(symbol)

\* C28: replaying an opportunity whose buy or sell exchange has no wallet, or
\* for a symbol that does not end in USDT, changes no balance, creates no
\* wallet, records no trade and raises nothing.
C28_UnbookableIsNoOp ==
    [][(sim_replayed' # sim_replayed /\ Unbookable(sim_opp', sim_balances, sim_symbol)) =>
          /\ sim_balances' = sim_balances
          /\ DOMAIN sim_balances' = DOMAIN sim_balances
          /\ sim_trades' = sim_trades
          /\ sim_pc' = "funded"]_vars

\* C28's case: after a booked trade, an opportunity selling on an exchange
\* with a funded buy wallet and no sell wallet was replayed
C28_Witness ==
    /\ sim_replayed >= 2 /\ sim_pc = "funded"
    /\ Len(sim_trades) >= 1
    /\ sim_opp.buy_exchange \in DOMAIN sim_balances
    /\ sim_balances[sim_opp.buy_exchange].USDT > 0
    /\ sim_opp.sell_exchange \notin DOMAIN sim_balances

\* a tradable amount of a symbol that does not end in USDT was replayed and
\* left the funded wallets as they were
NonUsdtSymbolReplayed ==
    /\ sim_replayed >= 1 /\ sim_pc = "funded"
    /\ ~EndsWithUSDT(sim_symbol)
    /\ ~IsDust(Locals(0, sim_opp, sim_balances).trade_amount_crypto)
    /\ sim_trades = <<>>
    /\ sim_balances = SetupInitialAssets(InitializeWalletsOf(sim_exchanges), sim_asks)


\* ---------------------------------------------------------------------------
\* The live finder: MarketState and ArbitrageFinder (arb-finder/core) under
\* ArbitrageApp.on_market_data and find_arbitrage_loop (arb-finder/main.py).
\* The clock counts seconds; the opportunities of a search are kept as a set.
\* ---------------------------------------------------------------------------

\* MarketState.max_data_age_sec
MaxDataAgeSec == 3

\* ArbitrageFinder.min_profit_pct: 0.3
MinProfitPct == RoundDiv(3 * Scale, 10)

\* the (exchange, symbol) pairs the feed sends
FeedKeys == {<<"A", Symbols[1]>>, <<"B", Symbols[1]>>, <<"A", Symbols[2]>>}

FeedBids == {0, Lit(1), Lit(2)}

\* DataReceiver: the message built from a row, stamped with time.time()
MarketData(key, bid, now) ==
    [exchange |-> key[1], symbol |-> key[2], bid |-> bid, timestamp |-> now]

\* MarketState.update
Update(data_by_key, data) ==
    [key \in DOMAIN data_by_key \cup {<<data.exchange, data.symbol>>} |->
        IF key = <<data.exchange, data.symbol>> THEN data ELSE data_by_key[key]]

\* MarketState.get_all: the entries left after the stale ones are deleted
GetAll(data_by_key, now) ==
    [key \in {k \in DOMAIN data_by_key :
                 now - data_by_key[k].timestamp <= MaxDataAgeSec} |-> data_by_key[key]]

\* MarketState.get_all_symbols
GetAllSymbols(data_by_key) == {data_by_key[key].symbol : key \in DOMAIN data_by_key}

\* MarketState.get_by_symbol
GetBySymbol(data_by_key, symbol) ==
    {data_by_key[key] : key \in {k \in DOMAIN data_by_key : data_by_key[k].symbol = symbol}}

\* ArbitrageFinder._calculate_profit
CalculateProfit(buy_data, sell_data) ==
    IF buy_data.bid = 0 THEN 0
    ELSE FMul(FDiv(sell_data.bid - buy_data.bid, buy_data.bid), Lit(100))

\* ArbitrageFinder._create_opportunity
CreateOpportunity(buy_data, sell_data, profit_pct) ==
    [symbol |-> buy_data.symbol,
     buy_exchange |-> buy_data.exchange,
     sell_exchange |-> sell_data.exchange,
     buy_price |-> buy_data.bid,
     sell_price |-> sell_data.bid,
     profit_pct |-> profit_pct,
     timestamp |-> buy_data.timestamp]

\* find_opportunities reading the state through get_all
FindOpportunitiesFresh(data_by_key, now) ==
    LET fresh == GetAll(data_by_key, now)
    IN  {CreateOpportunity(d1, d2, CalculateProfit(d1, d2)) :
            <<d1, d2>> \in
               {pair \in UNION {GetBySymbol(fresh, symbol) \X GetBySymbol(fresh, symbol) :
                                   symbol \in GetAllSymbols(fresh)} :
                   /\ pair[1] # pair[2]
                   /\ CalculateProfit(pair[1], pair[2]) >= MinProfitPct}}

\* ArbitrageFinder.find_opportunities: both directions of every pair of
\* entries of a symbol that has two or more
FindOpportunities(data_by_key, now) ==
    {CreateOpportunity(d1, d2, CalculateProfit(d1, d2)) :
        <<d1, d2>> \in
           {pair \in UNION {GetBySymbol(data_by_key, symbol) \X GetBySymbol(data_by_key, symbol) :
                               symbol \in GetAllSymbols(data_by_key)} :
               /\ pair[1] # pair[2]
               /\ CalculateProfit(pair[1], pair[2]) >= MinProfitPct}}

FinderInit ==
    /\ clock = 0
    /\ state_data = <<>>
    /\ updates = 0
    /\ found = {}
    /\ searched = FALSE
    /\ BacktesterIdle
    /\ DetectorIdle
    /\ CollectorIdle
    /\ ConfigIdle
    /\ InterleaveIdle
    /\ FundingIdle
    /\ ChartIdle
    /\ TraderIdle

\* ArbitrageApp.on_market_data, for a message the receiver has just stamped
OnMarketData ==
    /\ updates < MaxUpdates
    /\ \E key \in FeedKeys, bid \in FeedBids :
          state_data' = Update(state_data, MarketData(key, bid, clock))
    /\ updates' = updates + 1
    /\ searched' = FALSE
    /\ UNCHANGED <<clock, found>>
    /\ UNCHANGED <<backtester_vars, detector_vars, collector_vars, config_vars,
                   interleave_vars, funding_vars, chart_vars, trader_vars>>

\* ArbitrageApp.find_arbitrage_loop, one turn: sleep a second, then search
FindArbitrageLoop ==
    /\ clock < MaxClock
    /\ clock' = clock + 1
    /\ found' = FindOpportunities(state_data, clock + 1)
    /\ searched' = TRUE
    /\ UNCHANGED <<state_data, updates>>
    /\ UNCHANGED <<backtester_vars, detector_vars, collector_vars, config_vars,
                   interleave_vars, funding_vars, chart_vars, trader_vars>>

FinderNext == OnMarketData \/ FindArbitrageLoop

FinderSpec == FinderInit /\ [][FinderNext]_vars

\* ---------------------------------------------------------------------------
\* Claims about the live finder
\* ---------------------------------------------------------------------------

\* the entry an opportunity took its buy (sell) side from
BuyQuote(opp) == state_data[<<opp.buy_exchange, opp.symbol>>]
SellQuote(opp) == state_data[<<opp.sell_exchange, opp.symbol>>]

\* an update leaves one entry under its key, the one just received, and the
\* other entries as they were
KeepsLatestUpdate ==
    [][updates' # updates =>
          \E key \in FeedKeys :
              /\ DOMAIN state_data' = DOMAIN state_data \cup {key}
              /\ state_data'[key].exchange = key[1] /\ state_data'[key].symbol = key[2]
              /\ state_data'[key].timestamp = clock
              /\ \A other \in DOMAIN state_data \ {key} :
                    state_data'[other] = state_data[other]]_vars

\* no opportunity of the last search has a side older than max_data_age_sec
\* at the time of the search
ReportsOnlyFresh ==
    searched =>
        \A opp \in found :
            /\ clock - BuyQuote(opp).timestamp <= MaxDataAgeSec
            /\ clock - SellQuote(opp).timestamp <= MaxDataAgeSec

\* C29: MarketState keeps one entry per (exchange, symbol), the latest update,
\* and in any interleaving of updates and searches no search reports an
\* opportunity whose buy or sell quote is older than max_data_age_sec.
C29_FinderFreshness == KeepsLatestUpdate /\ []ReportsOnlyFresh

\* a search has reported an opportunity from quotes older than the limit
StaleOpportunityReported ==
    /\ searched
    /\ \E opp \in found :
          /\ clock - BuyQuote(opp).timestamp > MaxDataAgeSec
          /\ clock - SellQuote(opp).timestamp > MaxDataAgeSec

\* what the search reports is what it would report from the entries of
\* get_all, together with opportunities that have a stale side
OnlyStalenessDiffers ==
    searched =>
        /\ FindOpportunitiesFresh(state_data, clock) \subseteq found
        /\ \A opp \in found \ FindOpportunitiesFresh(state_data, clock) :
              \/ clock - BuyQuote(opp).timestamp > MaxDataAgeSec
              \/ clock - SellQuote(opp).timestamp > MaxDataAgeSec


\* ---------------------------------------------------------------------------
\* The fake-money live trader: MultiPairTrader with its BalanceManager and
\* MultiExchangeArbitrageAnalyzer (barbotine-arbitrage-bot-main).  The clock
\* counts seconds; spread_data holds the records of the symbol traded.
\* ---------------------------------------------------------------------------

\* MultiPairTrader.min_trade_interval
MinTradeInterval == 1

\* MultiPairTrader.max_exchanges
MaxExchanges == 4

\* default_fees: 0.001 of an amount, as the amount divided by 1000
FeeDivisor == 1000
FeeOf(x) == RoundDiv(x, FeeDivisor)

\* trade_amount_pct = 0.1 and the 90% put into crypto at the start
TradeAmountPct == RoundDiv(Scale, 10)
CryptoShare == RoundDiv(9 * Scale, 10)

\* min_profit_pct=0.3 of process_opportunity
TraderMinProfitPct == RoundDiv(3 * Scale, 10)

\* _can_execute_trade: min_usdt = 10.0; min_crypto = 0.001, which for amounts
\* on the grid is the smallest amount above zero
MinUsdt == Lit(10)
MinCrypto == 1

\* the clock when the trader is constructed: min_trade_interval past zero
TraderStart == 1

\* BalanceManager(total_usdt)
TotalUsdtSet == {0, Lit(2200)}

\* the exchange lists a pair is started with
PairExchangeLists == {<<"A">>, <<"A", "B">>}

SpreadRecord(symbol, exchange, price) ==
    [symbol |-> symbol, exchange |-> exchange, bestBid |-> price, bestAsk |-> price]

\* the spread data handed to a call: records of the symbol, one per exchange
SpreadDataSet(symbol) ==
    {<<>>,
     <<SpreadRecord(symbol, "B", Lit(1))>>,
     <<SpreadRecord(symbol, "A", Lit(1)), SpreadRecord(symbol, "B", Lit(1))>>,
     <<SpreadRecord(symbol, "A", Lit(1)), SpreadRecord(symbol, "B", Lit(2))>>,
     <<SpreadRecord(symbol, "A", Lit(2)), SpreadRecord(symbol, "B", Lit(1))>>,
     <<SpreadRecord(symbol, "A", 0), SpreadRecord(symbol, "B", Lit(2))>>}

\* BalanceManager.allocate_for_pair: the allocation
AllocateForPair(available, exchanges) ==
    [e \in {exchanges[i] : i \in 1..Len(exchanges)} |->
        [usdt |-> RoundDiv(available, Len(exchanges)), crypto |-> 0]]

\* start_trading_pair: exchange_asks, the last truthy bestAsk of each exchange
RECURSIVE ExchangeAsks(_, _)
ExchangeAsks(symbol_data, known_asks) ==
    IF symbol_data = <<>> THEN known_asks
    ELSE LET record == Head(symbol_data)
         IN  ExchangeAsks(Tail(symbol_data),
                IF record.bestAsk # 0
                THEN [e \in DOMAIN known_asks \cup {record.exchange} |->
                         IF e = record.exchange THEN record.bestAsk ELSE known_asks[e]]
                ELSE known_asks)

\* start_trading_pair: the ask an exchange is initialised at, the average of
\* the known known_asks when it has none, 0 when there is none at all
AskPriceFor(exchange, exchange_asks) ==
    IF exchange \in DOMAIN exchange_asks THEN exchange_asks[exchange]
    ELSE IF DOMAIN exchange_asks = {} THEN 0
    ELSE RoundDiv(SumOver(exchange_asks, DOMAIN exchange_asks),
                  Cardinality(DOMAIN exchange_asks))

\* BalanceManager.set_initial_crypto
SetInitialCrypto(wallet, crypto_amount, purchase_price) ==
    [usdt |-> wallet.usdt - FMul(crypto_amount, purchase_price), crypto |-> crypto_amount]

\* start_trading_pair: the wallets of the pair after the initial purchases
InitialPositions(allocation, exchange_asks) ==
    [e \in DOMAIN allocation |->
        LET ask_price == AskPriceFor(e, exchange_asks)
        IN  IF ask_price <= 0 THEN allocation[e]
            ELSE SetInitialCrypto(allocation[e],
                     FDiv(FMul(allocation[e].usdt, CryptoShare), ask_price), ask_price)]

\* MultiExchangeArbitrageAnalyzer._can_execute_trade
CanExecuteTrade(buy_exchange, sell_exchange, balances) ==
    /\ buy_exchange \in DOMAIN balances /\ sell_exchange \in DOMAIN balances
    /\ balances[buy_exchange].usdt >= MinUsdt
    /\ balances[sell_exchange].crypto >= MinCrypto

\* one row put in its place among rows in descending profit_pct order, after
\* the rows of equal profit (list.sort is stable)
RECURSIVE InsertByProfit(_, _)
InsertByProfit(row, sorted) ==
    IF sorted = <<>> THEN <<row>>
    ELSE IF Head(sorted).profit_pct >= row.profit_pct
         THEN <<Head(sorted)>> \o InsertByProfit(row, Tail(sorted))
         ELSE <<row>> \o sorted

RECURSIVE SortByProfit(_)
SortByProfit(seq) ==
    IF seq = <<>> THEN <<>>
    ELSE InsertByProfit(seq[Len(seq)], SortByProfit(SubSeq(seq, 1, Len(seq) - 1)))

\* find_all_opportunities for the records of one symbol: every ordered pair
\* of records with ask_a < bid_b, profit_pct >= min_profit_pct and balances to
\* execute it, the most profitable first
FindAllOpportunities(spread_records, balances, min_profit_pct) ==
    LET records == SubSeq(spread_records, 1, Min(Len(spread_records), MaxExchanges))
        n == Len(records)
        pairs == [m \in 1..(n * n) |-> <<((m - 1) \div n) + 1, ((m - 1) % n) + 1>>]
        profit(p) == FMul(FDiv(records[p[2]].bestBid - records[p[1]].bestAsk,
                               records[p[1]].bestAsk), Lit(100))
        kept == SelectSeq(pairs, LAMBDA p :
                    /\ p[1] # p[2]
                    /\ records[p[1]].bestAsk < records[p[2]].bestBid
                    /\ records[p[1]].bestAsk # 0
                    /\ profit(p) >= min_profit_pct
                    /\ CanExecuteTrade(records[p[1]].exchange, records[p[2]].exchange,
                                       balances))
    IN  SortByProfit([m \in 1..Len(kept) |->
            [symbol |-> records[kept[m][1]].symbol,
             buy_exchange |-> records[kept[m][1]].exchange,
             sell_exchange |-> records[kept[m][2]].exchange,
             buy_price |-> records[kept[m][1]].bestAsk,
             sell_price |-> records[kept[m][2]].bestBid,
             profit_pct |-> profit(kept[m])]])

\* BalanceManager.execute_trade with the default fees
ExecuteTrade(balances, buy_exchange, sell_exchange, amount, buy_price, sell_price) ==
    LET buy_cost == FMul(amount, buy_price) + FeeOf(FMul(amount, buy_price))
        crypto_bought == amount - FeeOf(amount)
        crypto_to_sell == amount + FeeOf(amount)
        sell_proceeds == FMul(amount, sell_price) - FeeOf(FMul(amount, sell_price))
        b1 == [balances EXCEPT ![buy_exchange].usdt = @ - buy_cost]
        b2 == [b1 EXCEPT ![buy_exchange].crypto = @ + crypto_bought]
        b3 == [b2 EXCEPT ![sell_exchange].crypto = @ - crypto_to_sell]
    IN  [b3 EXCEPT ![sell_exchange].usdt = @ + sell_proceeds]

\* process_opportunity: net_profit
NetProfit(amount, buy_price, sell_price) ==
    (FMul(amount, sell_price) - FeeOf(FMul(amount, sell_price)))
      - (FMul(amount, buy_price) + FeeOf(FMul(amount, buy_price)))

TradingSession(symbol, exchanges) ==
    [symbol |-> symbol, exchanges |-> exchanges, last_trade_time |-> 0,
     trade_count |-> 0, total_profit |-> 0,
     last_direction |-> [buy |-> "", sell |-> ""]]

TraderInit ==
    /\ trader_clock = TraderStart
    /\ available_usdt \in TotalUsdtSet
    /\ allocated_usdt = 0
    /\ pair_balances = <<>>
    /\ active_sessions = <<>>
    /\ returned = [op |-> "init", ok |-> FALSE]
    /\ BacktesterIdle
    /\ DetectorIdle
    /\ CollectorIdle
    /\ ConfigIdle
    /\ InterleaveIdle
    /\ FundingIdle
    /\ ChartIdle
    /\ FinderIdle

\* a second passes
TraderTick ==
    /\ trader_clock < MaxClock
    /\ trader_clock' = trader_clock + 1
    /\ returned' = [op |-> "tick", ok |-> FALSE]
    /\ UNCHANGED <<available_usdt, allocated_usdt, pair_balances, active_sessions>>
    /\ UNCHANGED <<backtester_vars, detector_vars, collector_vars, config_vars,
                   interleave_vars, funding_vars, chart_vars, finder_vars>>

\* MultiPairTrader.start_trading_pair
StartTradingPair ==
    /\ \E symbol \in SymbolSet, listed \in PairExchangeLists :
       \E spread_records \in SpreadDataSet(symbol) :
          LET exchanges == SubSeq(listed, 1, Min(Len(listed), MaxExchanges))
              started == symbol \notin DOMAIN active_sessions /\ available_usdt > 0
              allocation == AllocateForPair(available_usdt, exchanges)
              positions == InitialPositions(allocation, ExchangeAsks(spread_records, <<>>))
          IN  /\ returned' = [op |-> "start", ok |-> started]
              /\ IF started
                 THEN /\ pair_balances' =
                            [s \in DOMAIN pair_balances \cup {symbol} |->
                                IF s = symbol THEN positions ELSE pair_balances[s]]
                      /\ allocated_usdt' = allocated_usdt + available_usdt
                      /\ available_usdt' = 0
                      /\ active_sessions' =
                            [s \in DOMAIN active_sessions \cup {symbol} |->
                                IF s = symbol THEN TradingSession(symbol, exchanges)
                                ELSE active_sessions[s]]
                 ELSE UNCHANGED <<available_usdt, allocated_usdt, pair_balances,
                                  active_sessions>>
    /\ UNCHANGED trader_clock
    /\ UNCHANGED <<backtester_vars, detector_vars, collector_vars, config_vars,
                   interleave_vars, funding_vars, chart_vars, finder_vars>>

\* MultiPairTrader.process_opportunity
ProcessOpportunity ==
    /\ \E symbol \in SymbolSet :
       \E spread_records \in SpreadDataSet(symbol) :
          LET active == symbol \in DOMAIN active_sessions
              session == active_sessions[symbol]
              cooled == trader_clock - session.last_trade_time >= MinTradeInterval
              balances == pair_balances[symbol]
              all_opportunities_found == FindAllOpportunities(spread_records, balances,
                                                    TraderMinProfitPct)
              best_opp == all_opportunities_found[1]
              trade_amount == FMul(balances[best_opp.sell_exchange].crypto, TradeAmountPct)
              traded == /\ active /\ cooled /\ all_opportunities_found # <<>> /\ trade_amount > 0
          IN  /\ returned' = [op |-> "process", ok |-> traded]
              /\ IF traded
                 THEN /\ pair_balances' =
                            [pair_balances EXCEPT ![symbol] =
                                ExecuteTrade(@, best_opp.buy_exchange,
                                             best_opp.sell_exchange, trade_amount,
                                             best_opp.buy_price, best_opp.sell_price)]
                      /\ active_sessions' =
                            [active_sessions EXCEPT ![symbol] =
                                [@ EXCEPT
                                   !.last_trade_time = trader_clock,
                                   !.trade_count = @ + 1,
                                   !.total_profit = @ + NetProfit(trade_amount,
                                                        best_opp.buy_price,
                                                        best_opp.sell_price),
                                   !.last_direction = [buy |-> best_opp.buy_exchange,
                                                       sell |-> best_opp.sell_exchange]]]
                 ELSE UNCHANGED <<pair_balances, active_sessions>>
    /\ UNCHANGED <<trader_clock, available_usdt, allocated_usdt>>
    /\ UNCHANGED <<backtester_vars, detector_vars, collector_vars, config_vars,
                   interleave_vars, funding_vars, chart_vars, finder_vars>>

TraderNext == TraderTick \/ StartTradingPair \/ ProcessOpportunity

TraderSpec == TraderInit /\ [][TraderNext]_vars

\* ---------------------------------------------------------------------------
\* Claims about the fake-money live trader
\* ---------------------------------------------------------------------------

\* every usdt and crypto balance of every exchange of an active pair is >= 0
PairBalancesNonNegative ==
    \A symbol \in DOMAIN active_sessions :
        \A e \in DOMAIN pair_balances[symbol] :
            pair_balances[symbol][e].usdt >= 0 /\ pair_balances[symbol][e].crypto >= 0

\* a step that executes a trade on a pair that has traded before comes at
\* least min_trade_interval after the trade before it
TradesSpacedApart ==
    [][\A symbol \in DOMAIN active_sessions :
          (/\ symbol \in DOMAIN active_sessions'
           /\ active_sessions'[symbol].trade_count # active_sessions[symbol].trade_count) =>
              /\ active_sessions'[symbol].last_trade_time = trader_clock
              /\ active_sessions[symbol].trade_count > 0 =>
                    trader_clock - active_sessions[symbol].last_trade_time
                      >= MinTradeInterval]_vars

\* C30: for any sequence of start_trading_pair and process_opportunity calls
\* every usdt and crypto balance of every exchange of an active pair stays
\* >= 0, and two executed trades on one pair are at least min_trade_interval
\* seconds apart.
C30_FakeMoneySafety == []PairBalancesNonNegative /\ TradesSpacedApart

\* a pair has traded twice, in different seconds, and the exchange it bought
\* on owes USDT
BoughtBeyondItsUsdt ==
    \E symbol \in DOMAIN active_sessions :
        /\ active_sessions[symbol].trade_count = 2
        /\ active_sessions[symbol].last_trade_time > TraderStart
        /\ pair_balances[symbol][active_sessions[symbol].last_direction.buy].usdt < 0

\* no crypto balance goes below zero, and no balance does before the pair's
\* second trade
OnlyUsdtAfterRepeatedBuys ==
    \A symbol \in DOMAIN active_sessions :
        \A e \in DOMAIN pair_balances[symbol] :
            /\ pair_balances[symbol][e].crypto >= 0
            /\ active_sessions[symbol].trade_count <= 1 => pair_balances[symbol][e].usdt >= 0
====
